---------------------------- MODULE Spec2Model ----------------------------
(***************************************************************************)
(* State-machine model of the StampFly HAL drivers (components/hal):       *)
(* the HalBase lifecycle, the GPIO pin registry and ISR dispatch, the I2C  *)
(* and SPI bus drivers, the ADC driver and the Interrupt/Timer drivers.    *)
(* Each public method is one action; calls into ESP-IDF are environment    *)
(* steps whose esp_err_t outcome is chosen nondeterministically where the  *)
(* driver code branches on it.  The drivers share no state, so a behaviour *)
(* exercises one driver class, chosen in the initial state (focus).        *)
(***************************************************************************)
EXTENDS Integers, Sequences, FiniteSets, TLC

VARIABLES
    focus,                  \* the driver class this behaviour exercises
    last,                   \* the last call: method, arguments, return value
    state,                  \* HalBase::state_ of each instance under test
    g_alive,                \* GpioHal instances constructed and not yet destroyed
    pin_configs, callbacks, \* GpioHal::pin_configs_, GpioHal::callbacks_ (per instance)
    pin_map,                \* static GpioHal::pin_map_ (0: no entry)
    isr_service_installed,  \* static GpioHal::isr_service_installed_
    isr_handler, hw_intr,   \* GPIO hardware: handler slot of the ISR service, interrupt type
    driver_installed,       \* I2cHal::driver_installed_
    bus_initialized,        \* SpiHal::bus_initialized_
    pins_set,               \* I2cHal/SpiHal::config_ names the bus pins (not GPIO_NUM_NC)
    devices, bus_devices,   \* SpiHal::devices_; the handles attached to the SPI host
    dev_regs,               \* the register file of the device attached to the bus
    adc_handle,             \* AdcHal::adc_handle_ is not null
    channels,               \* AdcHal::channels_
    calibration_handles,    \* AdcHal::calibration_handles_
    filter_values,          \* AdcHal::filter_values_
    bit_width,              \* AdcHal::config_.bit_width
    timers, interrupts,     \* InterruptHal::timers_, InterruptHal::interrupts_
    timer_type,             \* TimerHal::timer_type_
    timer_handle,           \* TimerHal::esp_timer_handle_ / gp_timer_handle_ is not null
    active, timer_running,  \* TimerHal::active_; the underlying timer is counting
    thread,                 \* per calling task: the method it is in and its position
    mutex_,                 \* I2cHal/SpiHal/AdcHal::mutex_: the task holding it (0: free)
    hw_users,               \* per instance: the tasks inside a call of the unit's driver
    installed               \* per instance: driver_installed_ / bus_initialized_

gpioVars == <<g_alive, pin_configs, callbacks, pin_map,
              isr_service_installed, isr_handler, hw_intr>>
busVars == <<driver_installed, bus_initialized, pins_set, devices, bus_devices, dev_regs>>
adcVars == <<adc_handle, channels, calibration_handles, filter_values, bit_width>>
intrVars == <<timers, interrupts>>
timerVars == <<timer_type, timer_handle, active, timer_running>>
taskVars == <<thread, mutex_, hw_users, installed>>

vars == <<focus, last, state, gpioVars, busVars, adcVars, intrVars, timerVars, taskVars>>

---------------------------------------------------------------------------
(* Bounds of the model *)

NumCb == 2          \* distinct client callbacks 1 .. NumCb
MaxLen == 2         \* payload and read lengths 0 .. MaxLen

---------------------------------------------------------------------------
(* HalBase *)

States == {"UNINITIALIZED", "INITIALIZING", "INITIALIZED", "RUNNING", "ERROR", "SUSPENDED"}

\* a guard that lets only Initialized through (variant of isInitialized)
isInitializedOnly(s) == s = "INITIALIZED"

isInitialized(s) == s = "INITIALIZED" \/ s = "RUNNING"

\* a guard that lets Suspended through as well (variant of isRunning)
isRunningOrSuspended(s) == s = "RUNNING" \/ s = "SUSPENDED"

isRunning(s) == s = "RUNNING"

\* setState applied to each state of `targets` in turn, starting in s: the
\* transitions <<from, to>> it makes (none when the state does not change).
setState(s, targets) ==
    LET from(k) == IF k = 1 THEN s ELSE targets[k - 1]
    IN  SelectSeq([k \in 1..Len(targets) |-> <<from(k), targets[k]>>],
                  LAMBDA e : e[1] # e[2])

\* The record of a call.  op: the method; inst: the instance; id: the
\* hardware id it was given (-1: none); ret: the esp_err_t returned; hw: the
\* number of calls made to the underlying bus/converter; path: the state
\* transitions made by giving `targets` to setState, in order; out: values
\* handed back to the caller or to a callback.
Call(op, inst, id, ret, hw, targets, out) ==
    [op |-> op, inst |-> inst, id |-> id, ret |-> ret, hw |-> hw,
     path |-> IF targets = <<>> THEN <<>> ELSE setState(state[inst], targets),
     out |-> out]

NoCall == Call("none", 0, -1, "ESP_OK", 0, <<>>, <<>>)

\* Outcomes of a call into ESP-IDF
EspResult == {"ESP_OK", "ESP_FAIL"}

\* A driver method that only checks isInitialized()/isRunning() and fails
InvalidState(op, i) ==
    /\ last' = Call(op, i, -1, "ESP_ERR_INVALID_STATE", 0, <<>>, <<>>)
    /\ UNCHANGED state

---------------------------------------------------------------------------
(* GpioHal *)

GPIO_NUM_NC == -1
GpioInst == DOMAIN g_alive
Pins == DOMAIN pin_map              \* the valid GPIO numbers of the scenario
PinArgs == Pins \cup {GPIO_NUM_NC}
Callbacks == 1 .. NumCb

isValidPin(pin) == pin \in Pins

NoConfig == [set |-> FALSE, interrupt |-> "DISABLE", invert |-> FALSE]

Configs == [set : {TRUE}, interrupt : {"DISABLE", "POSEDGE"}, invert : BOOLEAN]

\* pins for which instance i holds a pin_configs_ entry
Configured(i) == {p \in Pins : pin_configs[i][p].set}

\* the interrupt type configurePin leaves in the hardware
AppliedType(cfg) == IF cfg.invert THEN "ANYEDGE" ELSE cfg.interrupt

GpioInit(insts, pins) ==
    /\ g_alive = [i \in insts |-> TRUE]
    /\ pin_configs = [i \in insts |-> [p \in pins |-> NoConfig]]
    /\ callbacks = [i \in insts |-> [p \in pins |-> 0]]
    /\ pin_map = [p \in pins |-> 0]
    /\ isr_service_installed = FALSE
    /\ isr_handler = [p \in pins |-> FALSE]
    /\ hw_intr = [p \in pins |-> "DISABLE"]

\* disableInterrupt(pin) called on instance i for every pin of ps
DisableAll(i, ps) ==
    /\ isr_handler' = [p \in Pins |-> IF p \in ps THEN FALSE ELSE isr_handler[p]]
    /\ hw_intr' = [p \in Pins |-> IF p \in ps THEN "DISABLE" ELSE hw_intr[p]]
    /\ callbacks' = [callbacks EXCEPT ![i] =
                        [p \in Pins |-> IF p \in ps THEN 0 ELSE callbacks[i][p]]]
    /\ pin_configs' = [pin_configs EXCEPT ![i] =
                        [p \in Pins |-> IF p \in ps /\ pin_configs[i][p].set
                                        THEN [pin_configs[i][p] EXCEPT !.interrupt = "DISABLE"]
                                        ELSE pin_configs[i][p]]]

GpioInitialize(i) ==
    /\ g_alive[i]
    /\ \E r \in EspResult :
        LET ok == isr_service_installed \/ r = "ESP_OK"
            end == IF ok THEN "INITIALIZED" ELSE "ERROR"
        IN  /\ isr_service_installed' = ok
            /\ state' = [state EXCEPT ![i] = end]
            /\ last' = Call("initialize", i, -1, IF ok THEN "ESP_OK" ELSE r, 0,
                            <<"INITIALIZING", end>>, <<>>)
    /\ UNCHANGED <<g_alive, pin_configs, callbacks, pin_map, isr_handler, hw_intr>>

\* configure(): configurePin for every stored configuration, in pin order,
\* stopping at the first pin f whose gpio_config fails (GPIO_NUM_NC: none fails)
GpioConfigure(i) ==
    /\ g_alive[i]
    /\ IF ~isInitialized(state[i])
       THEN InvalidState("configure", i) /\ UNCHANGED gpioVars
       ELSE \E f \in Configured(i) \cup {GPIO_NUM_NC} :
            LET done == {p \in Configured(i) : f = GPIO_NUM_NC \/ p < f}
            IN  /\ hw_intr' = [p \in Pins |-> IF p \in done
                                              THEN AppliedType(pin_configs[i][p])
                                              ELSE hw_intr[p]]
                /\ pin_map' = [p \in Pins |-> IF p \in done THEN i ELSE pin_map[p]]
                /\ last' = Call("configure", i, -1,
                                IF f = GPIO_NUM_NC THEN "ESP_OK" ELSE "ESP_FAIL",
                                Cardinality(done), <<>>, <<>>)
                /\ UNCHANGED <<state, g_alive, pin_configs, callbacks,
                               isr_service_installed, isr_handler>>

GpioStart(i) ==
    /\ g_alive[i]
    /\ IF ~isInitialized(state[i])
       THEN InvalidState("start", i)
       ELSE /\ state' = [state EXCEPT ![i] = "RUNNING"]
            /\ last' = Call("start", i, -1, "ESP_OK", 0, <<"RUNNING">>, <<>>)
    /\ UNCHANGED gpioVars

GpioStop(i) ==
    /\ g_alive[i]
    /\ state' = [state EXCEPT ![i] = "SUSPENDED"]
    /\ DisableAll(i, Configured(i))
    /\ last' = Call("stop", i, -1, "ESP_OK", 0, <<"SUSPENDED">>, <<>>)
    /\ UNCHANGED <<g_alive, pin_map, isr_service_installed>>

GpioReset(i) ==
    /\ g_alive[i]
    /\ hw_intr' = [p \in Pins |-> IF p \in Configured(i) THEN "DISABLE" ELSE hw_intr[p]]
    /\ pin_map' = [p \in Pins |-> IF p \in Configured(i) THEN 0 ELSE pin_map[p]]
    /\ pin_configs' = [pin_configs EXCEPT ![i] = [p \in Pins |-> NoConfig]]
    /\ callbacks' = [callbacks EXCEPT ![i] = [p \in Pins |-> 0]]
    /\ state' = [state EXCEPT ![i] = "INITIALIZED"]
    /\ last' = Call("reset", i, -1, "ESP_OK", 0, <<"INITIALIZED">>, <<>>)
    /\ UNCHANGED <<g_alive, isr_service_installed, isr_handler>>

GpioConfigurePin(i, pin, cfg) ==
    /\ g_alive[i]
    /\ UNCHANGED state
    /\ IF ~isValidPin(pin)
       THEN /\ last' = Call("configurePin", i, pin, "ESP_ERR_INVALID_ARG", 0, <<>>, <<>>)
            /\ UNCHANGED gpioVars
       ELSE \E r \in EspResult :
            /\ last' = Call("configurePin", i, pin, r, 1, <<>>, <<>>)
            /\ IF r = "ESP_OK"
               THEN /\ hw_intr' = [hw_intr EXCEPT ![pin] = AppliedType(cfg)]
                    /\ pin_configs' = [pin_configs EXCEPT ![i][pin] = cfg]
                    /\ pin_map' = [pin_map EXCEPT ![pin] = i]
                    /\ UNCHANGED <<g_alive, callbacks, isr_service_installed, isr_handler>>
               ELSE UNCHANGED gpioVars

\* setInterrupt(): fails at installIsrService ("install"), at
\* gpio_set_intr_type ("type") or at gpio_isr_handler_add ("add")
GpioSetInterrupt(i, pin, type, cb) ==
    /\ g_alive[i]
    /\ UNCHANGED state
    /\ IF ~isValidPin(pin)
       THEN /\ last' = Call("setInterrupt", i, pin, "ESP_ERR_INVALID_ARG", 0, <<>>, <<>>)
            /\ UNCHANGED gpioVars
       ELSE \E fail \in {"none", "install", "type", "add"} :
            /\ fail = "install" => ~isr_service_installed
            /\ last' = Call("setInterrupt", i, pin,
                            IF fail = "none" THEN "ESP_OK" ELSE "ESP_FAIL", 0, <<>>, <<>>)
            /\ isr_service_installed' = (isr_service_installed \/ fail # "install")
            /\ hw_intr' = IF fail \in {"none", "add"}
                          THEN [hw_intr EXCEPT ![pin] = type] ELSE hw_intr
            /\ pin_map' = IF fail \in {"none", "add"}
                          THEN [pin_map EXCEPT ![pin] = i] ELSE pin_map
            /\ callbacks' = CASE fail = "none" -> [callbacks EXCEPT ![i][pin] = cb]
                              [] fail = "add"  -> [callbacks EXCEPT ![i][pin] = 0]
                              [] OTHER         -> callbacks
            /\ isr_handler' = IF fail = "none"
                              THEN [isr_handler EXCEPT ![pin] = TRUE] ELSE isr_handler
            /\ pin_configs' = IF fail = "none" /\ pin_configs[i][pin].set
                              THEN [pin_configs EXCEPT ![i][pin].interrupt = type]
                              ELSE pin_configs
            /\ UNCHANGED g_alive

GpioDisableInterrupt(i, pin) ==
    /\ g_alive[i]
    /\ DisableAll(i, {pin} \cap Pins)
    /\ last' = Call("disableInterrupt", i, pin, "ESP_OK", 0, <<>>, <<>>)
    /\ UNCHANGED <<state, g_alive, pin_map, isr_service_installed>>

\* pin_map_ without the entries of the pins instance i has configured
\* (variant of EraseOwner)
EraseConfigured(i) == [p \in Pins |-> IF p \in Configured(i) THEN 0 ELSE pin_map[p]]

\* pin_map_ without the entries that refer to instance i
EraseOwner(i) == [p \in Pins |-> IF pin_map[p] = i THEN 0 ELSE pin_map[p]]

\* ~GpioHal(): disableInterrupt for every configured pin, then erase the
\* pin_map_ entries that refer to this instance
GpioDestroy(i) ==
    /\ g_alive[i]
    /\ g_alive' = [g_alive EXCEPT ![i] = FALSE]
    /\ isr_handler' = [p \in Pins |-> IF p \in Configured(i) THEN FALSE ELSE isr_handler[p]]
    /\ hw_intr' = [p \in Pins |-> IF p \in Configured(i) THEN "DISABLE" ELSE hw_intr[p]]
    /\ pin_map' = EraseOwner(i)
    /\ pin_configs' = [pin_configs EXCEPT ![i] = [p \in Pins |-> NoConfig]]
    /\ callbacks' = [callbacks EXCEPT ![i] = [p \in Pins |-> 0]]
    /\ last' = Call("destroy", i, -1, "ESP_OK", 0, <<>>, <<>>)
    /\ UNCHANGED <<state, isr_service_installed>>

\* the callback some instance holds for the pin, whatever pin_map_ says
\* (variant of IsrCallback)
IsrAnyCallback(pin) ==
    LET holders == {i \in GpioInst : callbacks[i][pin] # 0}
    IN  IF holders = {} THEN 0 ELSE callbacks[CHOOSE i \in holders : TRUE][pin]

\* the two lookups of gpioIsrHandler: pin_map_.find(pin), then
\* instance->callbacks_.find(pin); 0 when either lookup finds nothing
IsrCallback(pin) ==
    IF pin_map[pin] = 0 THEN 0 ELSE callbacks[pin_map[pin]][pin]

\* the hardware level handed on as it is (variant of IsrLevel)
IsrRawLevel(inst, pin, level) == level

\* the level gpioIsrHandler passes on: gpio_get_level(pin), negated when the
\* instance has a stored configuration of the pin with invert set
IsrLevel(inst, pin, level) ==
    IF pin_configs[inst][pin].set /\ pin_configs[inst][pin].invert THEN ~level ELSE level

\* gpioIsrHandler(pin): runs when the pin's interrupt is enabled and its
\* handler slot is filled; level is the hardware level of the pin.
\* out = <<callback invoked (0: none), level passed to it>>
GpioIsr(pin, level) ==
    /\ isr_handler[pin] /\ hw_intr[pin] # "DISABLE"
    /\ LET inst == pin_map[pin]
           cb == IsrCallback(pin)
       IN  last' = Call("isr", inst, pin, "ESP_OK", 0, <<>>,
                        IF cb = 0 THEN <<0, FALSE>> ELSE <<cb, IsrLevel(inst, pin, level)>>)
    /\ UNCHANGED <<state, gpioVars>>

\* the GpioHal steps with configurations cfgs and callbacks cbs
GpioSteps(cfgs, cbs) ==
    \/ \E i \in GpioInst : GpioInitialize(i)
    \/ \E i \in GpioInst : GpioConfigure(i)
    \/ \E i \in GpioInst : GpioStart(i)
    \/ \E i \in GpioInst : GpioStop(i)
    \/ \E i \in GpioInst : GpioReset(i)
    \/ \E i \in GpioInst, pin \in PinArgs, cfg \in cfgs : GpioConfigurePin(i, pin, cfg)
    \/ \E i \in GpioInst, pin \in PinArgs, cb \in cbs :
            GpioSetInterrupt(i, pin, "POSEDGE", cb)
    \/ \E i \in GpioInst, pin \in PinArgs : GpioDisableInterrupt(i, pin)
    \/ \E i \in GpioInst : GpioDestroy(i)
    \/ \E pin \in Pins, level \in BOOLEAN : GpioIsr(pin, level)

GpioNext == GpioSteps(Configs, Callbacks)

---------------------------------------------------------------------------
(* I2cHal and SpiHal: one instance (instance 1) of each *)

BusInit ==
    /\ driver_installed = FALSE
    /\ bus_initialized = FALSE
    /\ pins_set = FALSE
    /\ devices = <<>>
    /\ bus_devices = {}
    /\ dev_regs = [k \in 0..(MaxLen - 1) |-> 255]

\* setConfig(config): config names the bus pins or leaves them GPIO_NUM_NC
SetConfig(set) ==
    /\ pins_set' = set
    /\ last' = Call("setConfig", 1, -1, "ESP_OK", 0, <<>>, <<>>)
    /\ UNCHANGED <<state, driver_installed, bus_initialized, devices, bus_devices, dev_regs>>

\* I2cHal::initialize and SpiHal::initialize
BusInitialize ==
    LET end == IF pins_set THEN "INITIALIZED" ELSE "ERROR"
    IN  /\ state' = [state EXCEPT ![1] = end]
        /\ last' = Call("initialize", 1, -1,
                        IF pins_set THEN "ESP_OK" ELSE "ESP_ERR_INVALID_ARG", 0,
                        <<"INITIALIZING", end>>, <<>>)
        /\ UNCHANGED busVars

\* the body of I2cHal::configure after its state check; r is the outcome of
\* i2c_param_config / i2c_driver_install
I2cApply(op, r, then) ==
    /\ driver_installed' = (r = "ESP_OK")
    /\ state' = [state EXCEPT ![1] = IF r = "ESP_OK" THEN then ELSE "ERROR"]
    /\ last' = Call(op, 1, -1, r, 0,
                    IF r = "ESP_OK" THEN <<then>> ELSE <<"ERROR">>, <<>>)

I2cConfigure ==
    /\ IF ~isInitialized(state[1])
       THEN InvalidState("configure", 1) /\ UNCHANGED driver_installed
       ELSE \E r \in EspResult : I2cApply("configure", r, state[1])
    /\ UNCHANGED <<bus_initialized, pins_set, devices, bus_devices, dev_regs>>

I2cStart ==
    /\ IF ~isInitialized(state[1])
       THEN InvalidState("start", 1) /\ UNCHANGED driver_installed
       ELSE \E r \in EspResult :
            /\ driver_installed => r = "ESP_OK"
            /\ I2cApply("start", r, "RUNNING")
    /\ UNCHANGED <<bus_initialized, pins_set, devices, bus_devices, dev_regs>>

\* I2cHal::stop and SpiHal::stop
BusStop ==
    /\ state' = [state EXCEPT ![1] = "SUSPENDED"]
    /\ last' = Call("stop", 1, -1, "ESP_OK", 0, <<"SUSPENDED">>, <<>>)
    /\ UNCHANGED busVars

\* a reset that deletes the driver and leaves the state as it is (variant of
\* I2cReset)
I2cResetKeepingState ==
    /\ driver_installed' = FALSE
    /\ last' = Call("reset", 1, -1, "ESP_OK", 0, <<>>, <<>>)
    /\ UNCHANGED <<state, bus_initialized, pins_set, devices, bus_devices, dev_regs>>

I2cReset ==
    /\ driver_installed' = FALSE
    /\ state' = [state EXCEPT ![1] = "INITIALIZED"]
    /\ last' = Call("reset", 1, -1, "ESP_OK", 0, <<"INITIALIZED">>, <<>>)
    /\ UNCHANGED <<bus_initialized, pins_set, devices, bus_devices, dev_regs>>

\* The items of an I2C command link: <<kind, byte>>; a written byte is queued
\* with ACK check, a read byte is answered with ACK or NACK
START == <<"START", 0>>
STOP == <<"STOP", 0>>
WriteByte(b) == <<"WRITE", b>>
ReadAck == <<"READ_ACK", 0>>
ReadNack == <<"READ_NACK", 0>>

\* the 7-bit address queued as it is (variant of AddrWrite)
AddrUnshifted(addr) == addr % 256

\* (device_address << 1) | I2C_MASTER_WRITE and
\* (device_address << 1) | I2C_MASTER_READ, passed as uint8_t
AddrWrite(addr) == (addr * 2) % 256
AddrRead(addr) == (addr * 2 + 1) % 256

\* i2c_master_write(cmd, data, size, true)
WriteBytes(data) == [k \in 1..Len(data) |-> WriteByte(data[k])]

\* i2c_master_read of length - 1 bytes with ACK (when length > 1), then
\* i2c_master_read_byte with NACK
ReadBytes(length) == [k \in 1..length |-> IF k < length THEN ReadAck ELSE ReadNack]

\* the command queued by write()
WriteFrame(addr, data) ==
    <<START, WriteByte(AddrWrite(addr))>> \o WriteBytes(data) \o <<STOP>>

\* the command queued by read()
ReadFrame(addr, length) ==
    <<START, WriteByte(AddrRead(addr))>> \o ReadBytes(length) \o <<STOP>>

\* the command queued by writeRegister()
WriteRegisterFrame(addr, reg, data) ==
    <<START, WriteByte(AddrWrite(addr)), WriteByte(reg)>> \o WriteBytes(data) \o <<STOP>>

\* a register read made of a write command and a read command, with a STOP
\* between them (variant of ReadRegisterFrame)
ReadRegisterTwoFrames(addr, reg, length) ==
    <<START, WriteByte(AddrWrite(addr)), WriteByte(reg), STOP>> \o ReadFrame(addr, length)

\* the command queued by readRegister()
ReadRegisterFrame(addr, reg, length) ==
    <<START, WriteByte(AddrWrite(addr)), WriteByte(reg),
      START, WriteByte(AddrRead(addr))>> \o ReadBytes(length) \o <<STOP>>

\* the command queued by deviceExists()
ProbeFrame(addr) == <<START, WriteByte(AddrWrite(addr)), STOP>>

\* Outcomes of one I2C command: the link cannot be allocated, or
\* i2c_master_cmd_begin succeeds, is NACKed or times out
I2cResult == {"ESP_OK", "ESP_FAIL", "ESP_ERR_TIMEOUT", "ESP_ERR_NO_MEM"}

\* write, read, writeRegister, readRegister: state check, argument check,
\* then the command `frame` executed once under the mutex; out is the
\* command executed
I2cTransfer(op, addr, argOk, frame) ==
    /\ IF ~isRunning(state[1])
       THEN last' = Call(op, 1, addr, "ESP_ERR_INVALID_STATE", 0, <<>>, <<>>)
       ELSE IF ~argOk
       THEN last' = Call(op, 1, addr, "ESP_ERR_INVALID_ARG", 0, <<>>, <<>>)
       ELSE \E r \in I2cResult :
            last' = IF r = "ESP_ERR_NO_MEM"
                    THEN Call(op, 1, addr, r, 0, <<>>, <<>>)
                    ELSE Call(op, 1, addr, r, 1, <<>>, frame)
    /\ UNCHANGED <<state, busVars>>

\* the payload of n bytes the clients write: 0x00, 0xAE, ...
Payload(n) == [k \in 1..n |-> (174 * (k - 1)) % 256]

I2cWrite(addr, n) == I2cTransfer("write", addr, n > 0, WriteFrame(addr, Payload(n)))

I2cRead(addr, n) == I2cTransfer("read", addr, n > 0, ReadFrame(addr, n))

\* The device on the bus stores register writes: the bytes written after the
\* address byte and the register byte of a command go to the cells that
\* follow the register, and the bytes read after a repeated START come from
\* them. A cell never written holds 0xFF.

WrittenData(frame) == [k \in 1..(Len(frame) - 4) |-> frame[k + 3][2]]

DevStore(regs, frame) ==
    LET data == WrittenData(frame)
    IN  [k \in DOMAIN regs |-> IF k < Len(data) THEN data[k + 1] ELSE regs[k]]

DevLoad(regs, frame) ==
    LET reads == SelectSeq(frame, LAMBDA item : item \in {ReadAck, ReadNack})
    IN  [k \in 1..Len(reads) |-> regs[k - 1]]

\* writeRegister(): no argument check; the command is executed once and the
\* device stores the data when it acknowledges; out is the command executed
I2cWriteRegisterAs(op, addr, reg, data) ==
    /\ IF ~isRunning(state[1])
       THEN /\ last' = Call(op, 1, addr, "ESP_ERR_INVALID_STATE", 0, <<>>, <<>>)
            /\ UNCHANGED dev_regs
       ELSE \E r \in I2cResult :
            LET frame == WriteRegisterFrame(addr, reg, data)
            IN  /\ last' = IF r = "ESP_ERR_NO_MEM"
                           THEN Call(op, 1, addr, r, 0, <<>>, <<>>)
                           ELSE Call(op, 1, addr, r, 1, <<>>, frame)
                /\ dev_regs' = IF r = "ESP_OK" THEN DevStore(dev_regs, frame) ELSE dev_regs
    /\ UNCHANGED <<state, driver_installed, bus_initialized, pins_set, devices, bus_devices>>

I2cWriteRegister(addr, reg, n) == I2cWriteRegisterAs("writeRegister", addr, reg, Payload(n))

\* The 16-bit values written: 0x00AE and 0xAE00
Words == {174, 44544}

\* both orders read as big-endian (variant of Join16)
JoinBigEndian(data, big_endian) == data[1] * 256 + data[2]

\* writeRegister16: data = {value >> 8, value & 0xFF} when big_endian,
\* {value & 0xFF, value >> 8} otherwise
Split16(value, big_endian) ==
    IF big_endian THEN <<(value \div 256) % 256, value % 256>>
                  ELSE <<value % 256, (value \div 256) % 256>>

\* readRegister16: (data[0] << 8) | data[1] when big_endian,
\* (data[1] << 8) | data[0] otherwise
Join16(data, big_endian) ==
    IF big_endian THEN data[1] * 256 + data[2] ELSE data[2] * 256 + data[1]

\* readRegister(): state check, length check, data.resize(length), then the
\* command executed once; data holds the bytes received on ESP_OK. out is
\* data on ESP_OK, or for readRegister16 (word) the value made of it, and
\* empty otherwise.
I2cReadRegisterAs(op, addr, reg, length, word, big_endian) ==
    /\ IF ~isRunning(state[1])
       THEN last' = Call(op, 1, addr, "ESP_ERR_INVALID_STATE", 0, <<>>, <<>>)
       ELSE IF length = 0
       THEN last' = Call(op, 1, addr, "ESP_ERR_INVALID_ARG", 0, <<>>, <<>>)
       ELSE \E r \in I2cResult :
            LET frame == ReadRegisterFrame(addr, reg, length)
                data == DevLoad(dev_regs, frame)
            IN  last' = IF r = "ESP_ERR_NO_MEM"
                        THEN Call(op, 1, addr, r, 0, <<>>, <<>>)
                        ELSE IF r = "ESP_OK"
                        THEN Call(op, 1, addr, r, 1, <<>>,
                                  IF word THEN <<Join16(data, big_endian)>> ELSE data)
                        ELSE Call(op, 1, addr, r, 1, <<>>, <<>>)
    /\ UNCHANGED <<state, busVars>>

\* out is the data handed back
I2cReadRegister(addr, reg, n) ==
    I2cReadRegisterAs("readRegister", addr, reg, n, FALSE, TRUE)

I2cWriteRegister16(addr, reg, value, big_endian) ==
    I2cWriteRegisterAs("writeRegister16", addr, reg, Split16(value, big_endian))

\* out = <<value>> when readRegister returned ESP_OK with two bytes
I2cReadRegister16(addr, reg, big_endian) ==
    I2cReadRegisterAs("readRegister16", addr, reg, 2, TRUE, big_endian)

\* deviceExists(): ret is the bool returned
I2cDeviceExists(addr) ==
    /\ IF ~isRunning(state[1])
       THEN last' = Call("deviceExists", 1, addr, "false", 0, <<>>, <<>>)
       ELSE \E r \in I2cResult :
            last' = Call("deviceExists", 1, addr, IF r = "ESP_OK" THEN "true" ELSE "false",
                         IF r = "ESP_ERR_NO_MEM" THEN 0 ELSE 1, <<>>, <<>>)
    /\ UNCHANGED <<state, busVars>>

SCAN_FIRST == 8
SCAN_LAST == 119

\* The buses scanned: the addresses that acknowledge a probe, and the
\* addresses at whose probe i2c_cmd_link_create returns null
AckSets == {{}, {35, 104}}
NoMemSets == {{}, {35}}

\* the addresses the loop of scanBus visits, in its order
ScanRange == [k \in 1..(SCAN_LAST - SCAN_FIRST + 1) |-> SCAN_FIRST + k - 1]

\* the addresses pushed to found_devices: those for which deviceExists
\* returns true (the command link is created and the probe is acknowledged)
ScanFound(acks, nomem) == SelectSeq(ScanRange, LAMBDA a : a \in acks /\ a \notin nomem)

\* the commands the deviceExists calls of the loop execute
ScanProbes(nomem) ==
    LET probed == SelectSeq(ScanRange, LAMBDA a : a \notin nomem)
    IN  [k \in 1..Len(probed) |-> ProbeFrame(probed[k])]

\* scanBus(): deviceExists for every address of the range, always ESP_OK;
\* out = <<found_devices, the commands executed>>
I2cScanBus(acks, nomem) ==
    /\ IF ~isRunning(state[1])
       THEN last' = Call("scanBus", 1, -1, "ESP_ERR_INVALID_STATE", 0, <<>>, <<>>)
       ELSE LET probes == ScanProbes(nomem)
            IN  last' = Call("scanBus", 1, -1, "ESP_OK", Len(probes), <<>>,
                             <<ScanFound(acks, nomem), probes>>)
    /\ UNCHANGED <<state, busVars>>

I2cAddrs == {60}    \* device addresses used by the clients (0x3C)
I2cRegs == {117}    \* register addresses used by the clients

I2cNext ==
    \/ \E set \in BOOLEAN : SetConfig(set)
    \/ BusInitialize
    \/ I2cConfigure
    \/ I2cStart
    \/ BusStop
    \/ I2cReset
    \/ \E a \in I2cAddrs, n \in 0..MaxLen : I2cWrite(a, n)
    \/ \E a \in I2cAddrs, n \in 0..MaxLen : I2cRead(a, n)
    \/ \E a \in I2cAddrs, reg \in I2cRegs, n \in 0..MaxLen : I2cWriteRegister(a, reg, n)
    \/ \E a \in I2cAddrs, reg \in I2cRegs, n \in 0..MaxLen : I2cReadRegister(a, reg, n)
    \/ \E a \in I2cAddrs, reg \in I2cRegs, v \in Words, e \in BOOLEAN :
          I2cWriteRegister16(a, reg, v, e)
    \/ \E a \in I2cAddrs, reg \in I2cRegs, e \in BOOLEAN : I2cReadRegister16(a, reg, e)
    \/ \E a \in I2cAddrs : I2cDeviceExists(a)
    \/ \E acks \in AckSets, nomem \in NoMemSets : I2cScanBus(acks, nomem)

MaxDev == 2         \* device handles 1 .. MaxDev

Handles == 1 .. MaxDev

Range(seq) == {seq[k] : k \in 1..Len(seq)}

\* the body of SpiHal::configure after its state check: an initialized bus is
\* freed with its devices, then spi_bus_initialize (outcome r)
SpiApply(op, r, then) ==
    /\ devices' = IF bus_initialized THEN <<>> ELSE devices
    /\ bus_devices' = IF bus_initialized THEN bus_devices \ Range(devices) ELSE bus_devices
    /\ bus_initialized' = (r = "ESP_OK")
    /\ UNCHANGED dev_regs
    /\ state' = [state EXCEPT ![1] = IF r = "ESP_OK" THEN then ELSE "ERROR"]
    /\ last' = Call(op, 1, -1, r, 0,
                    IF r = "ESP_OK" THEN <<then>> ELSE <<"ERROR">>, <<>>)

SpiConfigure ==
    /\ IF ~isInitialized(state[1])
       THEN InvalidState("configure", 1) /\ UNCHANGED <<bus_initialized, devices, bus_devices, dev_regs>>
       ELSE \E r \in EspResult : SpiApply("configure", r, state[1])
    /\ UNCHANGED <<driver_installed, pins_set>>

SpiStart ==
    /\ IF ~isInitialized(state[1])
       THEN InvalidState("start", 1) /\ UNCHANGED <<bus_initialized, devices, bus_devices, dev_regs>>
       ELSE IF bus_initialized
       THEN /\ state' = [state EXCEPT ![1] = "RUNNING"]
            /\ last' = Call("start", 1, -1, "ESP_OK", 0, <<"RUNNING">>, <<>>)
            /\ UNCHANGED <<bus_initialized, devices, bus_devices, dev_regs>>
       ELSE \E r \in EspResult : SpiApply("start", r, "RUNNING")
    /\ UNCHANGED <<driver_installed, pins_set>>

SpiReset ==
    /\ devices' = <<>>
    /\ bus_devices' = bus_devices \ Range(devices)
    /\ bus_initialized' = FALSE
    /\ state' = [state EXCEPT ![1] = "INITIALIZED"]
    /\ last' = Call("reset", 1, -1, "ESP_OK", 0, <<"INITIALIZED">>, <<>>)
    /\ UNCHANGED <<driver_installed, pins_set, dev_regs>>

\* addDevice(): spi_bus_add_device attaches a free handle h or fails
SpiAddDevice ==
    /\ IF ~isRunning(state[1])
       THEN InvalidState("addDevice", 1) /\ UNCHANGED <<devices, bus_devices, dev_regs>>
       ELSE /\ UNCHANGED state
            /\ \/ /\ last' = Call("addDevice", 1, -1, "ESP_FAIL", 1, <<>>, <<>>)
                  /\ UNCHANGED <<devices, bus_devices, dev_regs>>
               \/ \E h \in Handles \ bus_devices :
                  /\ devices' = Append(devices, h)
                  /\ bus_devices' = bus_devices \cup {h}
                  /\ last' = Call("addDevice", 1, h, "ESP_OK", 1, <<>>, <<>>)
                  /\ UNCHANGED dev_regs
    /\ UNCHANGED <<driver_installed, bus_initialized, pins_set>>

\* removeDevice(h): h leaves devices_, then spi_bus_remove_device (outcome r)
SpiRemoveDevice(h) ==
    /\ \E r \in EspResult :
        /\ h \notin bus_devices => r = "ESP_FAIL"
        /\ devices' = SelectSeq(devices, LAMBDA d : d # h)
        /\ bus_devices' = IF r = "ESP_OK" THEN bus_devices \ {h} ELSE bus_devices
        /\ last' = Call("removeDevice", 1, h, r, 1, <<>>, <<>>)
    /\ UNCHANGED <<state, driver_installed, bus_initialized, pins_set, dev_regs>>

\* transmit(h, transaction): one spi_device_polling_transmit under the mutex
SpiTransmit(h) ==
    /\ IF ~isRunning(state[1])
       THEN last' = Call("transmit", 1, h, "ESP_ERR_INVALID_STATE", 0, <<>>, <<>>)
       ELSE \E r \in EspResult : last' = Call("transmit", 1, h, r, 1, <<>>, <<>>)
    /\ UNCHANGED <<state, busVars>>

\* What a `Transaction trans;` declared in write, read, writeRegister or
\* readRegister holds in flags when it reaches transmit: the struct has no
\* initializers and the helpers never assign flags, so any bits may be set
\* (here: none, one of the two data placement bits, a line mode bit)
TransFlags == {{}, {"USE_RXDATA"}, {"USE_TXDATA"}, {"MODE_DIO"}}

\* flags as transmit completes them: USE_TXDATA for 1..4 bytes to send,
\* USE_RXDATA for 1..4 bytes to receive, on top of transaction.flags
TransmitFlags(flags, tx, rxn) ==
    flags \cup (IF Len(tx) > 0 /\ Len(tx) <= 4 THEN {"USE_TXDATA"} ELSE {})
          \cup (IF rxn > 0 /\ rxn <= 4 THEN {"USE_RXDATA"} ELSE {})

\* spi_device_polling_transmit on a full-duplex device: a transaction that
\* asks for inline data of more than 32 bits or for a multi-line mode is
\* rejected, any other is exchanged or fails
PollingResults(flags, tx, rxn) ==
    IF \/ "MODE_DIO" \in flags
       \/ "USE_TXDATA" \in flags /\ Len(tx) > 4
       \/ "USE_RXDATA" \in flags /\ rxn > 4
    THEN {"ESP_ERR_INVALID_ARG"}
    ELSE EspResult

\* The SPI device stores register writes: the first byte clocked in selects
\* the register (low seven bits) and the direction (high bit set: read); the
\* bytes that follow are stored in, or answered from, the cells after the
\* register. While the first byte is clocked in the device echoes it. A cell
\* never written holds 0xFF.
SpiCell(regs, k) == IF k \in DOMAIN regs THEN regs[k] ELSE 255

SpiDevStore(regs, tx) ==
    IF Len(tx) > 0 /\ tx[1] < 128
    THEN [k \in DOMAIN regs |-> IF k + 2 <= Len(tx) THEN tx[k + 2] ELSE regs[k]]
    ELSE regs

SpiDevResponse(regs, tx, rxn) ==
    [k \in 1..rxn |-> IF Len(tx) > 0 /\ tx[1] >= 128
                      THEN (IF k = 1 THEN tx[1] ELSE SpiCell(regs, k - 2))
                      ELSE 255]

\* rx_data after transmit returned ESP_OK: with USE_RXDATA the first
\* min(size, 4) bytes are copied from the inline data and the rest keeps the
\* zeros of resize(), otherwise the driver has filled the buffer
RxDelivered(flags, resp) ==
    IF "USE_RXDATA" \in flags
    THEN [k \in 1..Len(resp) |-> IF k <= 4 THEN resp[k] ELSE 0]
    ELSE resp

\* a helper that builds a Transaction (flags as declared), calls transmit and
\* on ESP_OK hands rx_data back without its first `skip` bytes; out = <<the
\* bytes sent, the data handed back>>
SpiExchange(op, h, flags0, tx, rxn, skip) ==
    /\ IF ~isRunning(state[1])
       THEN /\ last' = Call(op, 1, h, "ESP_ERR_INVALID_STATE", 0, <<>>, <<>>)
            /\ UNCHANGED dev_regs
       ELSE LET flags == TransmitFlags(flags0, tx, rxn)
            IN  \E r \in PollingResults(flags, tx, rxn) :
                /\ h \notin bus_devices => r # "ESP_OK"
                /\ last' = Call(op, 1, h, r, 1, <<>>,
                       IF r = "ESP_OK"
                       THEN <<tx, SubSeq(RxDelivered(flags, SpiDevResponse(dev_regs, tx, rxn)),
                                         skip + 1, rxn)>>
                       ELSE <<>>)
                /\ dev_regs' = IF r = "ESP_OK" THEN SpiDevStore(dev_regs, tx) ELSE dev_regs
    /\ UNCHANGED <<state, driver_installed, bus_initialized, pins_set, devices, bus_devices>>

\* writeRegister: tx_data = address & 0x7F, then data
SpiWriteRegisterAs(op, h, flags0, address, data) ==
    SpiExchange(op, h, flags0, <<address % 128>> \o data, 0, 0)

\* readRegister: tx_data = address | 0x80, then length zeros; rx_data of
\* length + 1 bytes, handed back without its first byte
SpiReadRegisterAs(op, h, flags0, address, length) ==
    SpiExchange(op, h, flags0,
                <<(address % 128) + 128>> \o [k \in 1..length |-> 0], length + 1, 1)

SpiWriteRegister8(h, flags0, address, value) ==
    SpiWriteRegisterAs("writeRegister8", h, flags0, address, <<value>>)

SpiReadRegister8(h, flags0, address) ==
    SpiReadRegisterAs("readRegister8", h, flags0, address, 1)

SpiReadRegister(h, flags0, address, length) ==
    SpiReadRegisterAs("readRegister", h, flags0, address, length)

SpiRegs == {117, 245}       \* register addresses used by the clients (0x75, 0xF5)
SpiValues == {0, 174}       \* register values written
SpiLens == {0, 1, 3, 4}     \* lengths read

SpiNext ==
    \/ \E set \in BOOLEAN : SetConfig(set)
    \/ BusInitialize
    \/ SpiConfigure
    \/ SpiStart
    \/ BusStop
    \/ SpiReset
    \/ SpiAddDevice
    \/ \E h \in Handles : SpiRemoveDevice(h)
    \/ \E h \in Handles : SpiTransmit(h)
    \/ \E h \in Handles, f \in TransFlags, a \in SpiRegs, v \in SpiValues :
          SpiWriteRegister8(h, f, a, v)
    \/ \E h \in Handles, f \in TransFlags, a \in SpiRegs : SpiReadRegister8(h, f, a)
    \/ \E h \in Handles, f \in TransFlags, a \in SpiRegs, n \in SpiLens :
          SpiReadRegister(h, f, a, n)

---------------------------------------------------------------------------
(* AdcHal: one instance (instance 1) *)

AdcChans == {0}                 \* ADC_CHANNEL_0
InvalidChans == {10}            \* an id past ADC_CHANNEL_9
AdcIds == AdcChans \cup InvalidChans
Attenuations == {0, 3}          \* DB_0, DB_11
BitWidths == {0, 12}            \* WIDTH_DEFAULT, WIDTH_12
RawSamples == {0, 2048, 4095}   \* values adc_oneshot_read delivers
CaliMv == {7, 1500}             \* values adc_cali_raw_to_voltage delivers
Alphas == {0, 100, 150}         \* filter coefficient in percent
MaxSamples == 2                 \* readAverage sample counts 0 .. MaxSamples
default_vref == 1100

NoChannel == [set |-> FALSE, attenuation |-> 0, calibration_enable |-> FALSE]

ChannelConfigs == [set : {TRUE}, attenuation : Attenuations, calibration_enable : BOOLEAN]

NoHandle == [present |-> FALSE, atten |-> 0, width |-> 0]

AdcInit ==
    /\ adc_handle = FALSE
    /\ channels = [c \in AdcIds |-> NoChannel]
    /\ calibration_handles = [c \in AdcIds |-> NoHandle]
    /\ filter_values = [c \in AdcIds |-> -1]
    /\ bit_width = 0

AdcChannels == {c \in AdcIds : channels[c].set}

\* a failed creation leaves the old handle in place (variant of
\* createCalibrationHandle)
createKeepingOld(handles, c, atten, width, ok) ==
    IF ok THEN [handles EXCEPT ![c] = [present |-> TRUE, atten |-> atten, width |-> width]]
          ELSE handles

\* createCalibrationHandle: the old handle is destroyed, then
\* adc_cali_create_scheme_curve_fitting succeeds (ok) or fails
createCalibrationHandle(handles, c, atten, width, ok) ==
    [handles EXCEPT ![c] = IF ok THEN [present |-> TRUE, atten |-> atten, width |-> width]
                                 ELSE NoHandle]

\* what configureChannel(cfg) leaves in calibration_handles_ once
\* adc_oneshot_config_channel has succeeded
Recalibrate(handles, c, cfg, width, ok) ==
    IF cfg.calibration_enable
    THEN createCalibrationHandle(handles, c, cfg.attenuation, width, ok)
    ELSE handles

\* the conversion at the end of read/readAverage: <<raw, voltage_mv, calibrated>>
Convert(c, raw, mv) ==
    IF calibration_handles[c].present /\ mv >= 0
    THEN <<raw, mv, TRUE>>
    ELSE <<raw, (raw * default_vref) \div 4095, FALSE>>

\* mv = -1 stands for a failing adc_cali_raw_to_voltage
CaliResults == CaliMv \cup {-1}

AdcInitialize ==
    \E r \in EspResult :
        LET end == IF r = "ESP_OK" THEN "INITIALIZED" ELSE "ERROR"
        IN  /\ adc_handle' = (adc_handle \/ r = "ESP_OK")
            /\ state' = [state EXCEPT ![1] = end]
            /\ last' = Call("initialize", 1, -1, r, 1, <<"INITIALIZING", end>>, <<>>)
            /\ UNCHANGED <<channels, calibration_handles, filter_values, bit_width>>

\* configure() with the stored bit width `width`: the stored channels are
\* replayed in ascending order up to the first one (f) whose
\* adc_oneshot_config_channel fails; oks are the channels whose calibration
\* handle can be created
Replay(op, width) ==
    \E f \in AdcChannels \cup {-1}, oks \in SUBSET AdcChannels :
        LET done == {c \in AdcChannels : f = -1 \/ c < f}
        IN  /\ calibration_handles' =
                 [c \in AdcIds |->
                    IF c \in done
                    THEN Recalibrate(calibration_handles, c, channels[c], width, c \in oks)[c]
                    ELSE calibration_handles[c]]
            /\ last' = Call(op, 1, -1, IF f = -1 THEN "ESP_OK" ELSE "ESP_FAIL",
                            Cardinality(done) + (IF f = -1 THEN 0 ELSE 1), <<>>, <<>>)

AdcConfigure ==
    /\ IF ~isInitialized(state[1])
       THEN InvalidState("configure", 1) /\ UNCHANGED calibration_handles
       ELSE Replay("configure", bit_width) /\ UNCHANGED state
    /\ UNCHANGED <<adc_handle, channels, filter_values, bit_width>>

AdcStart ==
    /\ IF ~isInitialized(state[1])
       THEN InvalidState("start", 1)
       ELSE /\ state' = [state EXCEPT ![1] = "RUNNING"]
            /\ last' = Call("start", 1, -1, "ESP_OK", 0, <<"RUNNING">>, <<>>)
    /\ UNCHANGED adcVars

AdcStop ==
    /\ state' = [state EXCEPT ![1] = "SUSPENDED"]
    /\ last' = Call("stop", 1, -1, "ESP_OK", 0, <<"SUSPENDED">>, <<>>)
    /\ UNCHANGED adcVars

AdcReset ==
    /\ filter_values' = [c \in AdcIds |-> -1]
    /\ state' = [state EXCEPT ![1] = "INITIALIZED"]
    /\ last' = Call("reset", 1, -1, "ESP_OK", 0, <<"INITIALIZED">>, <<>>)
    /\ UNCHANGED <<adc_handle, channels, calibration_handles, bit_width>>

\* configureChannel(cfg) for channel c; r is the outcome of
\* adc_oneshot_config_channel, which needs a unit handle
\* (ok: adc_cali_create_scheme_curve_fitting succeeds)
ConfigureChannelWith(c, cfg, r, ok) ==
    /\ ~adc_handle => r = "ESP_FAIL"
    /\ channels' = IF r = "ESP_OK" THEN [channels EXCEPT ![c] = cfg] ELSE channels
    /\ calibration_handles' =
         IF r = "ESP_OK" THEN Recalibrate(calibration_handles, c, cfg, bit_width, ok)
                         ELSE calibration_handles
    /\ last' = Call("configureChannel", 1, c, r, 1, <<>>, <<>>)
    /\ UNCHANGED state

AdcConfigureChannel(c, cfg) ==
    /\ IF ~isInitialized(state[1])
       THEN InvalidState("configureChannel", 1) /\ UNCHANGED <<channels, calibration_handles>>
       ELSE \E r \in EspResult, ok \in BOOLEAN : ConfigureChannelWith(c, cfg, r, ok)
    /\ UNCHANGED <<adc_handle, filter_values, bit_width>>

RECURSIVE Sum(_)
Sum(seq) == IF seq = <<>> THEN 0 ELSE Head(seq) + Sum(Tail(seq))

\* read(c): one adc_oneshot_read under the mutex, then the conversion
AdcRead(c) ==
    /\ IF ~isRunning(state[1])
       THEN last' = Call("read", 1, c, "ESP_ERR_INVALID_STATE", 0, <<>>, <<>>)
       ELSE \/ last' = Call("read", 1, c, "ESP_FAIL", 1, <<>>, <<>>)
            \/ /\ adc_handle
               /\ \E raw \in RawSamples, mv \in CaliResults :
                    last' = Call("read", 1, c, "ESP_OK", 1, <<>>, Convert(c, raw, mv))
    /\ UNCHANGED <<state, adcVars>>

\* readAverage(c, samples): samples conversions, stopping at the first failure
AdcReadAverage(c, samples) ==
    /\ IF ~isRunning(state[1])
       THEN last' = Call("readAverage", 1, c, "ESP_ERR_INVALID_STATE", 0, <<>>, <<>>)
       ELSE IF samples = 0
       THEN last' = Call("readAverage", 1, c, "ESP_ERR_INVALID_ARG", 0, <<>>, <<>>)
       ELSE \/ \E k \in 1..samples :
                 last' = Call("readAverage", 1, c, "ESP_FAIL", k, <<>>, <<>>)
            \/ /\ adc_handle
               /\ \E raws \in [1..samples -> RawSamples], mv \in CaliResults :
                    last' = Call("readAverage", 1, c, "ESP_OK", samples, <<>>,
                                 Convert(c, Sum(raws) \div samples, mv))
    /\ UNCHANGED <<state, adcVars>>

\* the weights of the sample and of the previous value exchanged (variant of
\* Filtered)
FilteredSwapped(alpha, raw, previous) == (alpha * previous + (100 - alpha) * raw) \div 100

\* alpha * raw + (1 - alpha) * previous, alpha in percent, truncated to int
Filtered(alpha, raw, previous) == (alpha * raw + (100 - alpha) * previous) \div 100

\* readFiltered(c, alpha): read(), then the moving average under the mutex;
\* out = <<raw_value, voltage_mv, calibrated>> followed by the alpha passed
AdcReadFiltered(c, alpha) ==
    IF ~isRunning(state[1])
    THEN /\ last' = Call("readFiltered", 1, c, "ESP_ERR_INVALID_STATE", 0, <<>>, <<>>)
         /\ UNCHANGED <<state, adcVars>>
    ELSE IF alpha < 0 \/ alpha > 100
    THEN /\ last' = Call("readFiltered", 1, c, "ESP_ERR_INVALID_ARG", 0, <<>>, <<>>)
         /\ UNCHANGED <<state, adcVars>>
    ELSE \/ /\ last' = Call("readFiltered", 1, c, "ESP_FAIL", 1, <<>>, <<>>)
            /\ UNCHANGED <<state, adcVars>>
         \/ /\ adc_handle
            /\ \E raw \in RawSamples, mv \in CaliResults, mv2 \in CaliResults :
                 LET first == Convert(c, raw, mv)
                     value == Filtered(alpha, raw, filter_values[c])
                 IN  IF filter_values[c] = -1
                     THEN /\ filter_values' = [filter_values EXCEPT ![c] = raw]
                          /\ last' = Call("readFiltered", 1, c, "ESP_OK", 1, <<>>,
                                          Append(first, alpha))
                     ELSE /\ filter_values' = [filter_values EXCEPT ![c] = value]
                          /\ last' = Call("readFiltered", 1, c, "ESP_OK", 1, <<>>,
                                          IF calibration_handles[c].present
                                          THEN <<value, IF mv2 >= 0 THEN mv2 ELSE first[2],
                                                 first[3], alpha>>
                                          ELSE <<value, (value * default_vref) \div 4095,
                                                 first[3], alpha>>)
            /\ UNCHANGED <<state, adc_handle, channels, calibration_handles, bit_width>>

\* setAttenuation(c, attenuation): the stored attenuation changes before
\* configureChannel checks the state
AdcSetAttenuation(c, attenuation) ==
    IF ~channels[c].set
    THEN /\ last' = Call("setAttenuation", 1, c, "ESP_ERR_INVALID_ARG", 0, <<>>, <<>>)
         /\ UNCHANGED <<state, adcVars>>
    ELSE LET cfg == [channels[c] EXCEPT !.attenuation = attenuation]
         IN  /\ channels' = [channels EXCEPT ![c] = cfg]
             /\ IF ~isInitialized(state[1])
                THEN /\ last' = Call("setAttenuation", 1, c, "ESP_ERR_INVALID_STATE", 0, <<>>, <<>>)
                     /\ UNCHANGED calibration_handles
                ELSE \E r \in EspResult, ok \in BOOLEAN :
                     /\ ~adc_handle => r = "ESP_FAIL"
                     /\ calibration_handles' =
                          IF r = "ESP_OK"
                          THEN Recalibrate(calibration_handles, c, cfg, bit_width, ok)
                          ELSE calibration_handles
                     /\ last' = Call("setAttenuation", 1, c, r, 1, <<>>, <<>>)
             /\ UNCHANGED <<state, adc_handle, filter_values, bit_width>>

\* setBitWidth(width): the stored width changes before configure() checks
\* the state
AdcSetBitWidth(width) ==
    /\ bit_width' = width
    /\ IF ~isInitialized(state[1])
       THEN /\ last' = Call("setBitWidth", 1, -1, "ESP_ERR_INVALID_STATE", 0, <<>>, <<>>)
            /\ UNCHANGED calibration_handles
       ELSE Replay("setBitWidth", width)
    /\ UNCHANGED <<state, adc_handle, channels, filter_values>>

\* calibrate(c)
AdcCalibrate(c) ==
    /\ IF ~channels[c].set
       THEN /\ last' = Call("calibrate", 1, c, "ESP_ERR_INVALID_ARG", 0, <<>>, <<>>)
            /\ UNCHANGED calibration_handles
       ELSE \E ok \in BOOLEAN :
            /\ calibration_handles' = createCalibrationHandle(calibration_handles, c,
                                         channels[c].attenuation, bit_width, ok)
            /\ last' = Call("calibrate", 1, c, IF ok THEN "ESP_OK" ELSE "ESP_FAIL", 1, <<>>, <<>>)
    /\ UNCHANGED <<state, adc_handle, channels, filter_values, bit_width>>

AdcNext ==
    \/ AdcInitialize
    \/ AdcConfigure
    \/ AdcStart
    \/ AdcStop
    \/ AdcReset
    \/ \E c \in AdcChans, cfg \in ChannelConfigs : AdcConfigureChannel(c, cfg)
    \/ \E c \in InvalidChans :
          AdcConfigureChannel(c, [set |-> TRUE, attenuation |-> 0, calibration_enable |-> FALSE])
    \/ \E c \in AdcChans : AdcRead(c)
    \/ \E c \in AdcChans, n \in 0..MaxSamples : AdcReadAverage(c, n)
    \/ \E c \in AdcChans, a \in Alphas : AdcReadFiltered(c, a)
    \/ \E c \in AdcChans, a \in Attenuations : AdcSetAttenuation(c, a)
    \/ \E w \in BitWidths : AdcSetBitWidth(w)
    \/ \E c \in AdcChans : AdcCalibrate(c)

---------------------------------------------------------------------------
(* InterruptHal: one instance (instance 1) *)

IntrIds == {1}                  \* timer ids and interrupt ids used by the clients
Priorities == {1, 3}            \* LEVEL_1, LEVEL_3

NoTimer == [set |-> FALSE, auto_reload |-> FALSE, running |-> FALSE, total_count |-> 0]

NoInterrupt == [set |-> FALSE, enabled |-> FALSE, allocated |-> FALSE, priority |-> 0,
                total_count |-> 0]

IntrInit ==
    /\ timers = [t \in IntrIds |-> NoTimer]
    /\ interrupts = [n \in IntrIds |-> NoInterrupt]

\* The lifecycle methods shared by InterruptHal and TimerHal
TrivialInitialize ==
    /\ state' = [state EXCEPT ![1] = "INITIALIZED"]
    /\ last' = Call("initialize", 1, -1, "ESP_OK", 0, <<"INITIALIZING", "INITIALIZED">>, <<>>)

TrivialConfigure ==
    IF ~isInitialized(state[1])
    THEN InvalidState("configure", 1)
    ELSE last' = Call("configure", 1, -1, "ESP_OK", 0, <<>>, <<>>) /\ UNCHANGED state

TrivialStart ==
    IF ~isInitialized(state[1])
    THEN InvalidState("start", 1)
    ELSE /\ state' = [state EXCEPT ![1] = "RUNNING"]
         /\ last' = Call("start", 1, -1, "ESP_OK", 0, <<"RUNNING">>, <<>>)

IntrInitialize == TrivialInitialize /\ UNCHANGED intrVars

IntrConfigure == TrivialConfigure /\ UNCHANGED intrVars

IntrStart == TrivialStart /\ UNCHANGED intrVars

\* stop(): esp_timer_stop for every timer; interrupts_ is not visited
IntrStop ==
    /\ timers' = [t \in IntrIds |-> [timers[t] EXCEPT !.running = FALSE]]
    /\ state' = [state EXCEPT ![1] = "SUSPENDED"]
    /\ last' = Call("stop", 1, -1, "ESP_OK", 0, <<"SUSPENDED">>, <<>>)
    /\ UNCHANGED interrupts

\* reset(): the statistics of every entry are zeroed, the maps are kept
IntrReset ==
    /\ timers' = [t \in IntrIds |-> [timers[t] EXCEPT !.total_count = 0]]
    /\ interrupts' = [n \in IntrIds |-> [interrupts[n] EXCEPT !.total_count = 0]]
    /\ state' = [state EXCEPT ![1] = "INITIALIZED"]
    /\ last' = Call("reset", 1, -1, "ESP_OK", 0, <<"INITIALIZED">>, <<>>)

createHighResTimer(id, auto_reload) ==
    /\ IF ~isRunning(state[1])
       THEN last' = Call("createHighResTimer", 1, id, "ESP_ERR_INVALID_STATE", 0, <<>>, <<>>)
            /\ UNCHANGED timers
       ELSE IF timers[id].set
       THEN last' = Call("createHighResTimer", 1, id, "ESP_ERR_INVALID_ARG", 0, <<>>, <<>>)
            /\ UNCHANGED timers
       ELSE \E r \in EspResult :
            /\ timers' = IF r = "ESP_OK"
                         THEN [timers EXCEPT ![id] = [set |-> TRUE, auto_reload |-> auto_reload,
                                                      running |-> FALSE, total_count |-> 0]]
                         ELSE timers
            /\ last' = Call("createHighResTimer", 1, id, r, 1, <<>>, <<>>)
    /\ UNCHANGED <<state, interrupts>>

\* esp_timer_start_once / esp_timer_start_periodic refuse a running timer
startTimer(id) ==
    /\ IF ~timers[id].set
       THEN last' = Call("startTimer", 1, id, "ESP_ERR_NOT_FOUND", 0, <<>>, <<>>)
            /\ UNCHANGED timers
       ELSE IF timers[id].running
       THEN last' = Call("startTimer", 1, id, "ESP_ERR_INVALID_STATE", 1, <<>>, <<>>)
            /\ UNCHANGED timers
       ELSE /\ timers' = [timers EXCEPT ![id].running = TRUE]
            /\ last' = Call("startTimer", 1, id, "ESP_OK", 1, <<>>, <<>>)
    /\ UNCHANGED <<state, interrupts>>

\* esp_timer_stop refuses a timer that is not running
stopTimer(id) ==
    /\ IF ~timers[id].set
       THEN last' = Call("stopTimer", 1, id, "ESP_ERR_NOT_FOUND", 0, <<>>, <<>>)
            /\ UNCHANGED timers
       ELSE IF ~timers[id].running
       THEN last' = Call("stopTimer", 1, id, "ESP_ERR_INVALID_STATE", 1, <<>>, <<>>)
            /\ UNCHANGED timers
       ELSE /\ timers' = [timers EXCEPT ![id].running = FALSE]
            /\ last' = Call("stopTimer", 1, id, "ESP_OK", 1, <<>>, <<>>)
    /\ UNCHANGED <<state, interrupts>>

deleteTimer(id) ==
    /\ IF ~timers[id].set
       THEN last' = Call("deleteTimer", 1, id, "ESP_ERR_NOT_FOUND", 0, <<>>, <<>>)
            /\ UNCHANGED timers
       ELSE /\ timers' = [timers EXCEPT ![id] = NoTimer]
            /\ last' = Call("deleteTimer", 1, id, "ESP_OK", 2, <<>>, <<>>)
    /\ UNCHANGED <<state, interrupts>>

\* setTimerPeriod(): stop, then start with the new period
setTimerPeriod(id) ==
    /\ IF ~timers[id].set
       THEN last' = Call("setTimerPeriod", 1, id, "ESP_ERR_NOT_FOUND", 0, <<>>, <<>>)
            /\ UNCHANGED timers
       ELSE /\ timers' = [timers EXCEPT ![id].running = TRUE]
            /\ last' = Call("setTimerPeriod", 1, id, "ESP_OK", 2, <<>>, <<>>)
    /\ UNCHANGED <<state, interrupts>>

\* espTimerCallback: the function-local instance pointer is null, so the
\* trampoline returns before the statistics and the callback; a one-shot
\* timer is no longer running once it has expired
espTimerCallback(id) ==
    /\ timers[id].set /\ timers[id].running
    /\ timers' = [timers EXCEPT ![id].running = timers[id].auto_reload]
    /\ last' = Call("espTimerCallback", 1, id, "ESP_OK", 0, <<>>, <<FALSE>>)
    /\ UNCHANGED <<state, interrupts>>

registerInterrupt(id, priority) ==
    /\ IF ~isRunning(state[1])
       THEN last' = Call("registerInterrupt", 1, id, "ESP_ERR_INVALID_STATE", 0, <<>>, <<>>)
            /\ UNCHANGED interrupts
       ELSE IF interrupts[id].set
       THEN last' = Call("registerInterrupt", 1, id, "ESP_ERR_INVALID_ARG", 0, <<>>, <<>>)
            /\ UNCHANGED interrupts
       ELSE \E r \in EspResult :
            /\ interrupts' = IF r = "ESP_OK"
                             THEN [interrupts EXCEPT ![id] =
                                     [set |-> TRUE, enabled |-> TRUE, allocated |-> TRUE,
                                      priority |-> priority, total_count |-> 0]]
                             ELSE interrupts
            /\ last' = Call("registerInterrupt", 1, id, r, 1, <<>>, <<>>)
    /\ UNCHANGED <<state, timers>>

\* the ESP-IDF call on the stored handle: a freed handle is a dangling
\* pointer, the call may do anything
OnHandle(id) == IF interrupts[id].allocated THEN {"ESP_OK"} ELSE EspResult

unregisterInterrupt(id) ==
    /\ IF ~interrupts[id].set
       THEN last' = Call("unregisterInterrupt", 1, id, "ESP_ERR_NOT_FOUND", 0, <<>>, <<>>)
            /\ UNCHANGED interrupts
       ELSE \E r \in OnHandle(id) :
            /\ interrupts' = IF r = "ESP_OK" THEN [interrupts EXCEPT ![id] = NoInterrupt]
                                             ELSE interrupts
            /\ last' = Call("unregisterInterrupt", 1, id, r, 1, <<>>, <<>>)
    /\ UNCHANGED <<state, timers>>

\* enableInterrupt(id) and disableInterrupt(id)
SetEnabled(op, id, on) ==
    /\ IF ~interrupts[id].set
       THEN last' = Call(op, 1, id, "ESP_ERR_NOT_FOUND", 0, <<>>, <<>>)
            /\ UNCHANGED interrupts
       ELSE \E r \in OnHandle(id) :
            /\ interrupts' = IF r = "ESP_OK" THEN [interrupts EXCEPT ![id].enabled = on]
                                             ELSE interrupts
            /\ last' = Call(op, 1, id, r, 1, <<>>, <<>>)
    /\ UNCHANGED <<state, timers>>

\* setPriority(): the handle is freed and the priority stored before
\* esp_intr_alloc (outcome r) is tried
setPriority(id, priority) ==
    /\ IF ~interrupts[id].set
       THEN last' = Call("setPriority", 1, id, "ESP_ERR_NOT_FOUND", 0, <<>>, <<>>)
            /\ UNCHANGED interrupts
       ELSE \E r \in EspResult :
            /\ interrupts' = [interrupts EXCEPT ![id].priority = priority,
                                                ![id].allocated = (r = "ESP_OK"),
                                                ![id].enabled = (r = "ESP_OK")]
            /\ last' = Call("setPriority", 1, id, r, 2, <<>>, <<>>)
    /\ UNCHANGED <<state, timers>>

\* interruptHandlerWrapper: returns at the null instance pointer
interruptHandlerWrapper(id) ==
    /\ interrupts[id].set /\ interrupts[id].allocated /\ interrupts[id].enabled
    /\ last' = Call("interruptHandlerWrapper", 1, id, "ESP_OK", 0, <<>>, <<FALSE>>)
    /\ UNCHANGED <<state, timers, interrupts>>

\* getStatistics(id): out is <<total_count>>
getStatistics(id) ==
    /\ last' = IF timers[id].set
               THEN Call("getStatistics", 1, id, "ESP_OK", 0, <<>>, <<timers[id].total_count>>)
               ELSE IF interrupts[id].set
               THEN Call("getStatistics", 1, id, "ESP_OK", 0, <<>>, <<interrupts[id].total_count>>)
               ELSE Call("getStatistics", 1, id, "ESP_ERR_NOT_FOUND", 0, <<>>, <<>>)
    /\ UNCHANGED <<state, timers, interrupts>>

IntrNext ==
    \/ IntrInitialize
    \/ IntrConfigure
    \/ IntrStart
    \/ IntrStop
    \/ IntrReset
    \/ \E id \in IntrIds, a \in BOOLEAN : createHighResTimer(id, a)
    \/ \E id \in IntrIds : startTimer(id)
    \/ \E id \in IntrIds : stopTimer(id)
    \/ \E id \in IntrIds : deleteTimer(id)
    \/ \E id \in IntrIds : setTimerPeriod(id)
    \/ \E id \in IntrIds : espTimerCallback(id)
    \/ \E id \in IntrIds, p \in Priorities : registerInterrupt(id, p)
    \/ \E id \in IntrIds : unregisterInterrupt(id)
    \/ \E id \in IntrIds : SetEnabled("enableInterrupt", id, TRUE)
    \/ \E id \in IntrIds : SetEnabled("disableInterrupt", id, FALSE)
    \/ \E id \in IntrIds, p \in Priorities : setPriority(id, p)
    \/ \E id \in IntrIds : interruptHandlerWrapper(id)
    \/ \E id \in IntrIds : getStatistics(id)

---------------------------------------------------------------------------
(* TimerHal: one instance (instance 1) of either variant *)

TimerTypes == {"HIGH_RESOLUTION", "GENERAL_PURPOSE"}

TimerInit ==
    /\ timer_type \in (IF focus = "timer" THEN TimerTypes ELSE {"HIGH_RESOLUTION"})
    /\ timer_handle = FALSE
    /\ active = FALSE
    /\ timer_running = FALSE

TimerInitialize == TrivialInitialize /\ UNCHANGED timerVars

TimerConfigure == TrivialConfigure /\ UNCHANGED timerVars

TimerStart == TrivialStart /\ UNCHANGED timerVars

TimerStop ==
    /\ timer_running' = FALSE
    /\ active' = FALSE
    /\ state' = [state EXCEPT ![1] = "SUSPENDED"]
    /\ last' = Call("stop", 1, -1, "ESP_OK", 0, <<"SUSPENDED">>, <<>>)
    /\ UNCHANGED <<timer_type, timer_handle>>

TimerReset ==
    /\ timer_running' = FALSE
    /\ active' = FALSE
    /\ state' = [state EXCEPT ![1] = "INITIALIZED"]
    /\ last' = Call("reset", 1, -1, "ESP_OK", 0, <<"INITIALIZED">>, <<>>)
    /\ UNCHANGED <<timer_type, timer_handle>>

\* configureHighResolution / configureGeneralPurpose for a timer of variant
\* type: the old timer is deleted; a failing creation (r = "create") is an
\* ERROR, a failing later step of the general purpose setup (r = "setup")
\* only drops the handle
Reconfigure(op, type, r) ==
    IF ~isRunning(state[1]) \/ timer_type # type
    THEN /\ last' = Call(op, 1, -1, "ESP_ERR_INVALID_STATE", 0, <<>>, <<>>)
         /\ UNCHANGED <<state, timer_handle, timer_running>>
    ELSE /\ r = "setup" => type = "GENERAL_PURPOSE"
         /\ timer_handle' = (r = "ESP_OK")
         /\ timer_running' = FALSE
         /\ state' = [state EXCEPT ![1] = IF r = "create" THEN "ERROR" ELSE @]
         /\ last' = Call(op, 1, -1, IF r = "ESP_OK" THEN r ELSE "ESP_FAIL", 1,
                         IF r = "create" THEN <<"ERROR">> ELSE <<>>, <<>>)

CreateResult == {"ESP_OK", "create", "setup"}

configureHighResolution ==
    /\ \E r \in CreateResult : Reconfigure("configureHighResolution", "HIGH_RESOLUTION", r)
    /\ UNCHANGED <<timer_type, active>>

configureGeneralPurpose ==
    /\ \E r \in CreateResult : Reconfigure("configureGeneralPurpose", "GENERAL_PURPOSE", r)
    /\ UNCHANGED <<timer_type, active>>

\* setPeriod(): a high resolution timer that is active is restarted
setPeriod ==
    /\ IF timer_type = "HIGH_RESOLUTION"
       THEN /\ timer_running' = IF timer_handle /\ active THEN TRUE ELSE timer_running
            /\ last' = Call("setPeriod", 1, -1, "ESP_OK",
                            IF timer_handle /\ active THEN 2 ELSE 0, <<>>, <<>>)
       ELSE /\ last' = Call("setPeriod", 1, -1, "ESP_ERR_NOT_SUPPORTED", 0, <<>>, <<>>)
            /\ UNCHANGED timer_running
    /\ UNCHANGED <<state, timer_type, timer_handle, active>>

setAlarmValue ==
    /\ IF timer_type # "GENERAL_PURPOSE" \/ ~timer_handle
       THEN last' = Call("setAlarmValue", 1, -1, "ESP_ERR_INVALID_STATE", 0, <<>>, <<>>)
       ELSE \E r \in EspResult : last' = Call("setAlarmValue", 1, -1, r, 1, <<>>, <<>>)
    /\ UNCHANGED <<state, timerVars>>

\* startOneShot(): configures a timer first when there is none, then
\* esp_timer_start_once, which refuses a running timer
startOneShot ==
    IF timer_type # "HIGH_RESOLUTION"
    THEN /\ last' = Call("startOneShot", 1, -1, "ESP_ERR_NOT_SUPPORTED", 0, <<>>, <<>>)
         /\ UNCHANGED <<state, timerVars>>
    ELSE IF ~timer_handle /\ ~isRunning(state[1])
    THEN /\ last' = Call("startOneShot", 1, -1, "ESP_ERR_INVALID_STATE", 0, <<>>, <<>>)
         /\ UNCHANGED <<state, timerVars>>
    ELSE IF ~timer_handle
    THEN \E r \in EspResult :
         /\ timer_handle' = (r = "ESP_OK")
         /\ timer_running' = (r = "ESP_OK")
         /\ active' = IF r = "ESP_OK" THEN TRUE ELSE active
         /\ state' = [state EXCEPT ![1] = IF r = "ESP_OK" THEN @ ELSE "ERROR"]
         /\ last' = Call("startOneShot", 1, -1, r, IF r = "ESP_OK" THEN 2 ELSE 1,
                         IF r = "ESP_OK" THEN <<>> ELSE <<"ERROR">>, <<>>)
         /\ UNCHANGED timer_type
    ELSE /\ timer_running' = TRUE
         /\ active' = IF timer_running THEN active ELSE TRUE
         /\ last' = Call("startOneShot", 1, -1,
                         IF timer_running THEN "ESP_ERR_INVALID_STATE" ELSE "ESP_OK", 1, <<>>, <<>>)
         /\ UNCHANGED <<state, timer_type, timer_handle>>

\* the one-shot timer expires: TimerHal::espTimerCallback runs the callback
TimerExpire ==
    /\ timer_type = "HIGH_RESOLUTION" /\ timer_handle /\ timer_running
    /\ timer_running' = FALSE
    /\ last' = Call("espTimerCallback", 1, -1, "ESP_OK", 0, <<>>, <<TRUE>>)
    /\ UNCHANGED <<state, timer_type, timer_handle, active>>

TimerNext ==
    \/ TimerInitialize
    \/ TimerConfigure
    \/ TimerStart
    \/ TimerStop
    \/ TimerReset
    \/ configureHighResolution
    \/ configureGeneralPurpose
    \/ setPeriod
    \/ setAlarmValue
    \/ startOneShot
    \/ TimerExpire

---------------------------------------------------------------------------
(* Calling tasks: the methods of two instances of one driver class, run by
   two tasks that interleave at the mutex operations and at the entry and
   the return of each call into the unit's ESP-IDF driver.  The instances
   start Running with their driver installed (after setConfig, initialize,
   start). *)

Tasks == {1, 2}
BusInst == {1, 2}

\* std::mutex mutex_ is declared static: one mutex for the class (variant
\* of MutexOf)
ClassMutex(b) == 1

\* std::mutex mutex_ is a member: one mutex per instance
MutexOf(b) == b

NoTask == [op |-> "none", inst |-> 0, pc |-> "idle", cmd |-> <<>>, n |-> 0]

TaskInit(tasks, insts) ==
    /\ thread = [t \in tasks |-> NoTask]
    /\ mutex_ = [b \in insts |-> 0]
    /\ hw_users = [b \in insts |-> {}]
    /\ installed = [b \in insts |-> TRUE]

\* the methods that run one exchange under std::lock_guard
Transactions ==
    CASE focus = "i2c" -> {"write", "read", "readRegister"}
      [] focus = "spi" -> {"transmit"}
      [] OTHER         -> {"read"}

\* the command link an I2C transaction queues; the other drivers queue none
Frame(op, addr, reg, length) ==
    CASE focus = "i2c" /\ op = "write"        -> WriteFrame(addr, Payload(length))
      [] focus = "i2c" /\ op = "read"         -> ReadFrame(addr, length)
      [] focus = "i2c" /\ op = "readRegister" -> ReadRegisterFrame(addr, reg, length)
      [] OTHER                                -> <<>>

\* the task returns from its method
Return(t, op, b, ret, hw, targets, out) ==
    /\ thread' = [thread EXCEPT ![t] = NoTask]
    /\ last' = Call(op, b, t, ret, hw, targets, out)

Enter(b, t) == hw_users' = [hw_users EXCEPT ![b] = @ \cup {t}]
Leave(b, t) == hw_users' = [hw_users EXCEPT ![b] = @ \ {t}]

\* entry of a transaction: the isRunning() check and the argument check are
\* made before the lock_guard is constructed
TxBegin(t, op, b, length) ==
    /\ thread[t].pc = "idle"
    /\ IF ~isRunning(state[b])
       THEN Return(t, op, b, "ESP_ERR_INVALID_STATE", 0, <<>>, <<>>)
       ELSE IF focus = "i2c" /\ length = 0
       THEN Return(t, op, b, "ESP_ERR_INVALID_ARG", 0, <<>>, <<>>)
       ELSE /\ thread' = [thread EXCEPT ![t] =
                            [op |-> op, inst |-> b, pc |-> "acquire", cmd |-> <<>>,
                             n |-> IF focus = "i2c" THEN length ELSE 0]]
            /\ UNCHANGED last
    /\ UNCHANGED <<state, mutex_, hw_users, installed>>

\* std::lock_guard<std::mutex> lock(mutex_): blocks until the mutex is free
TxLock(t) ==
    /\ thread[t].pc = "acquire"
    /\ mutex_[MutexOf(thread[t].inst)] = 0
    /\ mutex_' = [mutex_ EXCEPT ![MutexOf(thread[t].inst)] = t]
    /\ thread' = [thread EXCEPT ![t].pc = "frame"]
    /\ UNCHANGED <<last, state, hw_users, installed>>

\* a return path that leaves the mutex locked (variant of Unlock)
KeepLocked(t) == UNCHANGED mutex_

\* ~lock_guard, run on every return path after the lock was taken
Unlock(t) == mutex_' = [mutex_ EXCEPT ![MutexOf(thread[t].inst)] = 0]

\* framing: the I2C command link is created and filled (link = FALSE:
\* i2c_cmd_link_create returns null), the SPI transaction structure is
\* prepared; then the call into the driver is entered
TxFrame(t, link) ==
    LET b == thread[t].inst
    IN  /\ thread[t].pc = "frame"
        /\ IF focus = "i2c" /\ ~link
           THEN /\ Return(t, thread[t].op, b, "ESP_ERR_NO_MEM", 0, <<>>, <<>>)
                /\ Unlock(t)
                /\ UNCHANGED hw_users
           ELSE /\ \E addr \in I2cAddrs, reg \in I2cRegs :
                    thread' = [thread EXCEPT
                                ![t].pc = "exec",
                                ![t].cmd = Frame(thread[t].op, addr, reg, thread[t].n)]
                /\ Enter(b, t)
                /\ UNCHANGED <<last, mutex_>>
        /\ UNCHANGED <<state, installed>>

\* i2c_master_cmd_begin / spi_device_polling_transmit / adc_oneshot_read
\* returns r (the response has been copied), and the method returns r
TxEnd(t, r) ==
    LET b == thread[t].inst
    IN  /\ thread[t].pc = "exec"
        /\ Leave(b, t)
        /\ Unlock(t)
        /\ Return(t, thread[t].op, b, r, 1, <<>>, thread[t].cmd)
        /\ UNCHANGED <<state, installed>>

\* I2cHal::reset / SpiHal::reset: no lock; an installed driver is deleted
ResetBegin(t, b) ==
    /\ thread[t].pc = "idle"
    /\ IF installed[b]
       THEN /\ thread' = [thread EXCEPT ![t] =
                            [op |-> "reset", inst |-> b, pc |-> "delete", cmd |-> <<>>,
                             n |-> 0]]
            /\ Enter(b, t)
            /\ UNCHANGED <<last, state>>
       ELSE /\ state' = [state EXCEPT ![b] = "INITIALIZED"]
            /\ Return(t, "reset", b, "ESP_OK", 0, <<"INITIALIZED">>, <<>>)
            /\ UNCHANGED hw_users
    /\ UNCHANGED <<mutex_, installed>>

\* i2c_driver_delete / spi_bus_free has returned
ResetEnd(t) ==
    LET b == thread[t].inst
    IN  /\ thread[t].pc = "delete"
        /\ Leave(b, t)
        /\ installed' = [installed EXCEPT ![b] = FALSE]
        /\ state' = [state EXCEPT ![b] = "INITIALIZED"]
        /\ Return(t, "reset", b, "ESP_OK", 1, <<"INITIALIZED">>, <<>>)
        /\ UNCHANGED mutex_

\* configure(), and start() which calls configure() when no driver is
\* installed: no lock; an installed driver is deleted, then a driver is
\* installed
InstallBegin(t, op, b) ==
    /\ thread[t].pc = "idle"
    /\ IF ~isInitialized(state[b])
       THEN /\ Return(t, op, b, "ESP_ERR_INVALID_STATE", 0, <<>>, <<>>)
            /\ UNCHANGED <<state, hw_users, installed>>
       ELSE IF op = "start" /\ installed[b]
       THEN /\ state' = [state EXCEPT ![b] = "RUNNING"]
            /\ Return(t, op, b, "ESP_OK", 0, <<"RUNNING">>, <<>>)
            /\ UNCHANGED <<hw_users, installed>>
       ELSE /\ thread' = [thread EXCEPT ![t] =
                            [op |-> op, inst |-> b, pc |-> "install", cmd |-> <<>>,
                             n |-> 0]]
            /\ Enter(b, t)
            /\ installed' = [installed EXCEPT ![b] = FALSE]
            /\ UNCHANGED <<last, state>>
    /\ UNCHANGED mutex_

\* i2c_param_config and i2c_driver_install / spi_bus_initialize returned r
InstallEnd(t, r) ==
    LET b == thread[t].inst
        op == thread[t].op
        end == IF r # "ESP_OK" THEN <<"ERROR">>
               ELSE IF op = "start" THEN <<"RUNNING">> ELSE <<>>
    IN  /\ thread[t].pc = "install"
        /\ Leave(b, t)
        /\ installed' = [installed EXCEPT ![b] = (r = "ESP_OK")]
        /\ state' = IF end = <<>> THEN state ELSE [state EXCEPT ![b] = end[1]]
        /\ Return(t, op, b, r, 1, end, <<>>)
        /\ UNCHANGED mutex_

\* AdcHal::readAverage: no lock; the first adc_oneshot_read is entered
AverageBegin(t, b, samples) ==
    /\ thread[t].pc = "idle"
    /\ IF ~isRunning(state[b])
       THEN Return(t, "readAverage", b, "ESP_ERR_INVALID_STATE", 0, <<>>, <<>>)
            /\ UNCHANGED hw_users
       ELSE IF samples = 0
       THEN Return(t, "readAverage", b, "ESP_ERR_INVALID_ARG", 0, <<>>, <<>>)
            /\ UNCHANGED hw_users
       ELSE /\ thread' = [thread EXCEPT ![t] =
                            [op |-> "readAverage", inst |-> b, pc |-> "sample",
                             cmd |-> <<>>, n |-> samples]]
            /\ Enter(b, t)
            /\ UNCHANGED last
    /\ UNCHANGED <<state, mutex_, installed>>

\* adc_oneshot_read returned r: the method returns on a failure and after
\* the last sample, else it delays one tick
SampleEnd(t, r) ==
    LET b == thread[t].inst
    IN  /\ thread[t].pc = "sample"
        /\ Leave(b, t)
        /\ IF r # "ESP_OK" \/ thread[t].n = 1
           THEN Return(t, "readAverage", b, r, 1, <<>>, <<>>)
           ELSE /\ thread' = [thread EXCEPT ![t].pc = "delay", ![t].n = @ - 1]
                /\ UNCHANGED last
        /\ UNCHANGED <<state, mutex_, installed>>

\* vTaskDelay is over: the next adc_oneshot_read is entered
SampleNext(t) ==
    /\ thread[t].pc = "delay"
    /\ thread' = [thread EXCEPT ![t].pc = "sample"]
    /\ Enter(thread[t].inst, t)
    /\ UNCHANGED <<last, state, mutex_, installed>>

\* I2cHal::stop / SpiHal::stop: no lock, no driver call
TaskStop(t, b) ==
    /\ thread[t].pc = "idle"
    /\ state' = [state EXCEPT ![b] = "SUSPENDED"]
    /\ Return(t, "stop", b, "ESP_OK", 0, <<"SUSPENDED">>, <<>>)
    /\ UNCHANGED <<mutex_, hw_users, installed>>

\* entry of scanBus: the isRunning() check, found_devices.clear().
\* n is the loop variable addr; cmd = <<probes executed so far, whether a
\* deviceExists call of this scan found the driver not Running>>
ScanBegin(t, b) ==
    /\ thread[t].pc = "idle"
    /\ IF ~isRunning(state[b])
       THEN Return(t, "scanBus", b, "ESP_ERR_INVALID_STATE", 0, <<>>, <<>>)
       ELSE /\ thread' = [thread EXCEPT ![t] =
                            [op |-> "scanBus", inst |-> b, pc |-> "scan",
                             cmd |-> <<0, FALSE>>, n |-> SCAN_FIRST]]
            /\ UNCHANGED last
    /\ UNCHANGED <<state, mutex_, hw_users, installed>>

\* one turn of the loop of scanBus: deviceExists(addr) returns false without
\* a probe when the driver is not Running or when no command link is
\* created (r = ESP_ERR_NO_MEM), else it takes the mutex, executes the probe
\* and returns whether it was acknowledged; addr++
ScanProbe(t, r) ==
    LET b == thread[t].inst
        running == isRunning(state[b])
        probed == running /\ r # "ESP_ERR_NO_MEM"
    IN  /\ thread[t].pc = "scan" /\ thread[t].n <= SCAN_LAST
        /\ running => mutex_[MutexOf(b)] = 0
        /\ ~running => r = "ESP_OK"
        /\ thread' = [thread EXCEPT
                        ![t].n = @ + 1,
                        ![t].cmd = <<@[1] + (IF probed THEN 1 ELSE 0), @[2] \/ ~running>>]
        /\ UNCHANGED <<last, state, mutex_, hw_users, installed>>

\* the loop of scanBus is over: the method returns ESP_OK.
\* out = <<whether a deviceExists call found the driver not Running>>
ScanEnd(t) ==
    /\ thread[t].pc = "scan" /\ thread[t].n > SCAN_LAST
    /\ Return(t, "scanBus", thread[t].inst, "ESP_OK", thread[t].cmd[1], <<>>,
              <<thread[t].cmd[2]>>)
    /\ UNCHANGED <<state, mutex_, hw_users, installed>>

\* the outcomes of the exchange of a transaction
ExchangeResult == IF focus = "i2c" THEN I2cResult \ {"ESP_ERR_NO_MEM"} ELSE EspResult

\* the steps of a transaction
TxSteps ==
    \/ \E t \in Tasks, b \in BusInst, n \in 0..MaxLen :
            \E op \in Transactions : TxBegin(t, op, b, n)
    \/ \E t \in Tasks : TxLock(t)
    \/ \E t \in Tasks, link \in BOOLEAN : TxFrame(t, link)
    \/ \E t \in Tasks : \E r \in ExchangeResult : TxEnd(t, r)

\* the lifecycle methods of the bus drivers
BusLifecycleSteps ==
    \/ \E t \in Tasks, b \in BusInst : ResetBegin(t, b)
    \/ \E t \in Tasks : ResetEnd(t)
    \/ \E t \in Tasks, b \in BusInst, op \in {"configure", "start"} : InstallBegin(t, op, b)
    \/ \E t \in Tasks, r \in EspResult : InstallEnd(t, r)

AverageSteps ==
    \/ \E t \in Tasks, b \in BusInst, n \in 0..MaxSamples : AverageBegin(t, b, n)
    \/ \E t \in Tasks, r \in EspResult : SampleEnd(t, r)
    \/ \E t \in Tasks : SampleNext(t)

---------------------------------------------------------------------------
(* The program: one driver class is exercised per behaviour *)

Drivers == {"gpio", "i2c", "spi", "adc", "interrupt", "timer"}

\* the state after construction, with GpioHal instances insts using pins
InitWith(drivers, insts, pins) ==
    /\ focus \in drivers
    /\ last = NoCall
    /\ state = [i \in insts |-> "UNINITIALIZED"]
    /\ GpioInit(insts, pins)
    /\ BusInit
    /\ AdcInit
    /\ IntrInit
    /\ TimerInit
    /\ TaskInit({}, {})

Init == InitWith(Drivers, {1}, {0, 1})

Next ==
    \/ focus = "gpio" /\ GpioNext /\ UNCHANGED <<focus, busVars, adcVars, intrVars, timerVars, taskVars>>
    \/ focus = "i2c" /\ I2cNext /\ UNCHANGED <<focus, gpioVars, adcVars, intrVars, timerVars, taskVars>>
    \/ focus = "spi" /\ SpiNext /\ UNCHANGED <<focus, gpioVars, adcVars, intrVars, timerVars, taskVars>>
    \/ focus = "adc" /\ AdcNext /\ UNCHANGED <<focus, gpioVars, busVars, intrVars, timerVars, taskVars>>
    \/ focus = "interrupt" /\ IntrNext /\ UNCHANGED <<focus, gpioVars, busVars, adcVars, timerVars, taskVars>>
    \/ focus = "timer" /\ TimerNext /\ UNCHANGED <<focus, gpioVars, busVars, adcVars, intrVars, taskVars>>

Spec == Init /\ [][Next]_vars

\* Two GpioHal instances sharing one pin
InitGpio2 == InitWith({"gpio"}, {1, 2}, {0})

NextGpio2 ==
    /\ GpioSteps({cfg \in Configs : ~cfg.invert}, {1})
    /\ UNCHANGED <<focus, busVars, adcVars, intrVars, timerVars, taskVars>>

SpecGpio2 == InitGpio2 /\ [][NextGpio2]_vars

\* Two tasks calling two instances of one bus driver class or of AdcHal
InitTasks ==
    /\ focus \in {"i2c", "spi", "adc"}
    /\ last = NoCall
    /\ state = [b \in BusInst |-> "RUNNING"]
    /\ GpioInit({}, {})
    /\ BusInit
    /\ AdcInit
    /\ IntrInit
    /\ TimerInit
    /\ TaskInit(Tasks, BusInst)

NextTasks ==
    /\ \/ TxSteps
       \/ focus \in {"i2c", "spi"} /\ BusLifecycleSteps
       \/ focus = "adc" /\ AverageSteps
    /\ UNCHANGED <<focus, gpioVars, busVars, adcVars, intrVars, timerVars>>

SpecTasks == InitTasks /\ [][NextTasks]_vars

\* Task 1 scans I2C bus 1 while task 2 calls stop, reset and start on it;
\* the command link of every probe is allocated
InitScan ==
    /\ InitTasks
    /\ focus = "i2c"

NextScan ==
    /\ \/ ScanBegin(1, 1)
       \/ \E r \in ExchangeResult : ScanProbe(1, r)
       \/ ScanEnd(1)
       \/ TaskStop(2, 1)
       \/ ResetBegin(2, 1)
       \/ ResetEnd(2)
       \/ InstallBegin(2, "start", 1)
       \/ \E r \in EspResult : InstallEnd(2, r)
    /\ UNCHANGED <<focus, gpioVars, busVars, adcVars, intrVars, timerVars>>

SpecScan == InitScan /\ [][NextScan]_vars

\* Two tasks running transactions on two instances of one bus driver class.
\* A task that holds a mutex is runnable, and the exchange it waits for
\* returns when its timeout elapses at the latest: its steps are weakly fair.
InitTx ==
    /\ InitTasks
    /\ focus \in {"i2c", "spi"}

NextTx ==
    /\ TxSteps
    /\ UNCHANGED <<focus, state, installed, gpioVars, busVars, adcVars, intrVars, timerVars>>

\* the steps of task t between taking the mutex and returning
Holding(t) ==
    /\ \/ \E link \in BOOLEAN : TxFrame(t, link)
       \/ \E r \in ExchangeResult : TxEnd(t, r)
    /\ UNCHANGED <<focus, gpioVars, busVars, adcVars, intrVars, timerVars>>

SpecTxFair == InitTx /\ [][NextTx]_vars /\ \A t \in Tasks : WF_vars(Holding(t))

---------------------------------------------------------------------------
(* Properties of the lifecycle state machine *)

Lifecycle == {"initialize", "configure", "start", "stop", "reset"}

\* the operational methods of the bus drivers and of the ADC
Operational == {"write", "read", "writeRegister", "readRegister", "deviceExists",
                "scanBus", "transmit", "addDevice", "readAverage", "readFiltered"}

\* the edges of the lifecycle state machine, for a transition e = <<from, to>>
\* made by method op
DefinedEdge(e, op) ==
    CASE e[2] = "INITIALIZING" -> e[1] = "UNINITIALIZED"
      [] e[2] = "RUNNING"      -> e[1] = "INITIALIZED"
      [] e[2] = "SUSPENDED"    -> e[1] \in {"RUNNING", "INITIALIZED"}
      [] e[2] = "INITIALIZED"  -> e[1] = "INITIALIZING" \/ op = "reset"
      [] e[2] = "ERROR"        -> TRUE
      [] OTHER                 -> FALSE

\* C1: every state transition made by initialize/configure/start/stop/reset
\* of any driver is a defined edge: Initializing only from Uninitialized,
\* Running only from Initialized, Suspended only from Running or
\* Initialized, Initialized only from Initializing or by reset(), Error from
\* any state.
C1_DefinedEdges ==
    last.op \in Lifecycle =>
        \A k \in 1..Len(last.path) : DefinedEdge(last.path[k], last.op)

\* C2: configure(), start(), stop() and reset() called on an Uninitialized
\* driver fail with ESP_ERR_INVALID_STATE and leave it Uninitialized.
C2_UninitializedRejects ==
    [][(last'.op \in {"configure", "start", "stop", "reset"}
            /\ state[last'.inst] = "UNINITIALIZED")
        => (last'.ret = "ESP_ERR_INVALID_STATE"
            /\ state'[last'.inst] = "UNINITIALIZED")]_vars

\* C3: Error is absorbing: a lifecycle or operational method called on a
\* driver in Error does not succeed and leaves the state Error.
C3_ErrorAbsorbing ==
    [][(last'.op \in Lifecycle \cup Operational /\ state[last'.inst] = "ERROR")
        => (last'.ret # "ESP_OK" /\ state'[last'.inst] = "ERROR")]_vars

\* C4: an operational method of I2cHal, SpiHal or AdcHal called while the
\* driver is Suspended or Uninitialized returns ESP_ERR_INVALID_STATE
\* (deviceExists: false), makes no call to the bus or converter and changes
\* nothing.
C4_NoBusActivity ==
    [][(focus \in {"i2c", "spi", "adc"} /\ last'.op \in Operational
            /\ state[1] \in {"SUSPENDED", "UNINITIALIZED"})
        => (/\ last'.ret = IF last'.op = "deviceExists" THEN "false"
                                                       ELSE "ESP_ERR_INVALID_STATE"
            /\ last'.hw = 0
            /\ UNCHANGED <<state, busVars, adcVars>>)]_vars

\* an operational method was refused on a Suspended driver
C4_Witness ==
    /\ focus \in {"i2c", "spi", "adc"}
    /\ last.op \in Operational
    /\ state[1] = "SUSPENDED"
    /\ last.ret \in {"false", "ESP_ERR_INVALID_STATE"}
    /\ last.hw = 0

\* C5: when stop() has returned the driver is Suspended, no pin of a GpioHal
\* keeps a callback or an installed handler of that instance, no timer of an
\* InterruptHal is running and no registered interrupt is enabled.
C5_StopDisablesAll ==
    last.op = "stop" =>
        /\ state[last.inst] = "SUSPENDED"
        /\ focus = "gpio" =>
              \A p \in Pins : /\ callbacks[last.inst][p] = 0
                              /\ ~(pin_map[p] = last.inst /\ isr_handler[p])
        /\ focus = "interrupt" =>
              \A id \in IntrIds : /\ ~timers[id].running
                                  /\ ~(interrupts[id].set /\ interrupts[id].enabled)
        /\ focus = "timer" => ~timer_running

C7_ResetClears ==
    last.op = "reset" =>
        /\ state[last.inst] = "INITIALIZED"
        /\ focus = "adc" =>
              \A c \in AdcChans : filter_values[c] = -1 /\ channels[c] = NoChannel
        /\ focus = "interrupt" =>
              \A id \in IntrIds : timers[id] = NoTimer /\ interrupts[id] = NoInterrupt
        /\ focus = "gpio" =>
              \A p \in Pins : /\ pin_configs[last.inst][p] = NoConfig
                              /\ callbacks[last.inst][p] = 0
                              /\ pin_map[p] # last.inst

\* C8: a configure() that succeeds in Initialized or Running applies every
\* registered channel, pin and device again and leaves the registered
\* sub-resources and their stored configuration as they were (so that a
\* second configure() finds what the first one found).
C8_ConfigureReplaysAll ==
    [][(last'.op = "configure" /\ last'.ret = "ESP_OK"
            /\ state[last'.inst] \in {"INITIALIZED", "RUNNING"})
        => (/\ focus = "adc" =>
                 channels' = channels /\ last'.hw = Cardinality(AdcChannels)
            /\ focus = "gpio" =>
                 /\ pin_configs' = pin_configs
                 /\ last'.hw = Cardinality(Configured(last'.inst))
            /\ focus = "spi" =>
                 devices' = devices /\ Range(devices) \subseteq bus_devices')]_vars

\* the hardware ids the GPIO pin map, the timer map and the interrupt map
\* hold a binding for
BoundPin(p) == p \in Pins /\ pin_map[p] # 0

\* C9: binding a hardware id that is bound fails and leaves the binding
\* unchanged (GPIO pins by configurePin/setInterrupt, timer ids by
\* createHighResTimer, interrupt ids by registerInterrupt), and an id that
\* has been unbound is free to be bound again.
C9_AlreadyBound ==
    [][/\ (last'.op \in {"configurePin", "setInterrupt"} /\ BoundPin(last'.id))
            => (/\ last'.ret # "ESP_OK"
                /\ UNCHANGED <<pin_map, pin_configs, callbacks>>)
       /\ (last'.op = "createHighResTimer" /\ timers[last'.id].set)
            => (last'.ret # "ESP_OK" /\ UNCHANGED timers)
       /\ (last'.op = "registerInterrupt" /\ interrupts[last'.id].set)
            => (last'.ret # "ESP_OK" /\ UNCHANGED interrupts)
       /\ (last'.op = "deleteTimer" /\ last'.ret = "ESP_OK")
            => ~timers'[last'.id].set
       /\ (last'.op = "unregisterInterrupt" /\ last'.ret = "ESP_OK")
            => ~interrupts'[last'.id].set]_vars

\* instance i holds a pin configuration or an interrupt callback for pin p
Holds(i, p) == g_alive[i] /\ (pin_configs[i][p].set \/ callbacks[i][p] # 0)

\* C10: no two live GpioHal instances hold a configuration or callback for
\* the same pin, and the pin map names the instance that holds them.
C10_OneOwnerPerPin ==
    \A p \in Pins : \A i \in GpioInst :
        Holds(i, p) =>
            /\ pin_map[p] = i
            /\ \A j \in GpioInst \ {i} : ~Holds(j, p)

---------------------------------------------------------------------------
(* Properties of the pin registry and the ISR dispatch *)

\* C11: every pin map entry refers to a live GpioHal instance (a destroyed
\* instance has left no entry behind), and the instance the ISR dispatch
\* dereferenced was live.
C11_PinMapLive ==
    /\ \A p \in Pins : pin_map[p] # 0 => g_alive[pin_map[p]]
    /\ (last.op = "isr" /\ last.inst # 0) => g_alive[last.inst]

\* an instance was destroyed while a pin whose handler is still installed
\* in the ISR service has no pin map entry any more
C11_Witness ==
    /\ last.op = "destroy"
    /\ ~g_alive[last.inst]
    /\ \E p \in Pins : isr_handler[p] /\ hw_intr[p] # "DISABLE" /\ pin_map[p] = 0

\* C12: an ISR dispatch changes no driver state; for a pin without a
\* registry entry, or whose owning instance holds no callback for it, it
\* invokes nothing; otherwise it invokes the callback the owning instance
\* currently holds for the pin, and only that one.
C12_IsrDispatch ==
    [][last'.op = "isr" =>
        /\ UNCHANGED <<state, gpioVars>>
        /\ Len(last'.out) = 2
        /\ LET pin == last'.id
               owner == pin_map[pin]
           IN  IF owner = 0 \/ callbacks[owner][pin] = 0
               THEN last'.out = <<0, FALSE>>
               ELSE last'.out[1] = callbacks[owner][pin]]_vars

\* the ISR fired for a pin whose owner holds a callback, and invoked it
C12_Witness ==
    /\ last.op = "isr"
    /\ last.inst # 0
    /\ last.out[1] # 0
    /\ callbacks[last.inst][last.id] = last.out[1]

\* the step wrote or erased the pin_map_ entry or a callbacks_ entry of pin p
RegistryMutated(p) ==
    \/ pin_map'[p] # pin_map[p]
    \/ \E i \in GpioInst : callbacks'[i][p] # callbacks[i][p]

\* the interrupt of pin p could be dispatched at the moment the step touched
\* the registry: every method changes the interrupt type before it touches
\* the registry, removes a handler before and adds a handler after
LiveAtMutation(p) ==
    isr_handler[p] /\ isr_handler'[p] /\ hw_intr'[p] # "DISABLE"

\* C13: the pin_map_ entry and the callbacks_ entry of a pin are written or
\* erased only while no ISR handler is installed and enabled for that pin.
C13_MutationMasked ==
    [][\A p \in Pins : RegistryMutated(p) => ~LiveAtMutation(p)]_vars

\* the call recorded in last' unbinds an id that is not bound in the state
\* before it
UnbindOfUnbound ==
    \/ /\ focus = "gpio" /\ last'.op = "disableInterrupt"
       /\ last'.id \in Pins /\ ~isr_handler[last'.id]
       /\ callbacks[last'.inst][last'.id] = 0
    \/ /\ focus = "interrupt" /\ last'.op = "unregisterInterrupt"
       /\ ~interrupts[last'.id].set
    \/ /\ focus = "interrupt" /\ last'.op = "deleteTimer"
       /\ ~timers[last'.id].set

\* C14: unbinding an id that is not bound (disableInterrupt of a pin without
\* handler, unregisterInterrupt or deleteTimer of an unknown id) succeeds and
\* changes nothing, so a second unbind gives the result and the state of the
\* first.
C14_UnbindIdempotent ==
    [][UnbindOfUnbound =>
        /\ last'.ret = "ESP_OK"
        /\ UNCHANGED <<callbacks, pin_map, isr_handler, timers, interrupts>>]_vars

---------------------------------------------------------------------------
(* Properties of the calling tasks *)

\* task t is in the framing, execution or response-copy phase of a
\* transaction on instance b
InTransaction(t, b) ==
    thread[t].inst = b /\ thread[t].op \in Transactions /\ thread[t].pc \in {"frame", "exec"}

\* C15: on one bus instance at most one transaction is in its framing,
\* execution or response-copy phase, and a task that waits for the mutex of
\* an instance waits for a transaction on that same instance.
C15_OneTransactionPerBus ==
    /\ \A b \in BusInst : Cardinality({t \in Tasks : InTransaction(t, b)}) <= 1
    /\ \A t \in Tasks :
        (thread[t].pc = "acquire" /\ ~ENABLED TxLock(t)) =>
            \E u \in Tasks : InTransaction(u, thread[t].inst)

\* two transactions execute at the same time, one on each instance
C15_Witness ==
    /\ focus \in {"i2c", "spi"}
    /\ \E t, u \in Tasks :
        /\ thread[t].pc = "exec" /\ thread[u].pc = "exec"
        /\ thread[t].op \in Transactions /\ thread[u].op \in Transactions
        /\ thread[t].inst # thread[u].inst

\* C16: a task is inside a call of the ESP-IDF driver of an instance's
\* hardware unit only while it holds that instance's mutex, so no two tasks
\* are inside the driver of one unit at the same time.
C16_HardwareUnderMutex ==
    \A b \in BusInst :
        /\ \A t \in hw_users[b] : mutex_[MutexOf(b)] = t
        /\ Cardinality(hw_users[b]) <= 1

\* cmd is START, address+WRITE, register, repeated START, address+READ,
\* length - 1 reads answered ACK, one read answered NACK, STOP, with no other
\* STOP in it
RegisterReadShape(cmd, addr, reg, length) ==
    /\ Len(cmd) = length + 6
    /\ cmd[1] = <<"START", 0>>
    /\ cmd[2] = <<"WRITE", (2 * addr) % 256>>
    /\ cmd[3] = <<"WRITE", reg>>
    /\ cmd[4] = <<"START", 0>>
    /\ cmd[5] = <<"WRITE", ((2 * addr) % 256) + 1>>
    /\ \A k \in 6 .. (length + 4) : cmd[k] = <<"READ_ACK", 0>>
    /\ cmd[length + 5] = <<"READ_NACK", 0>>
    /\ cmd[length + 6] = <<"STOP", 0>>
    /\ \A k \in 1 .. (length + 5) : cmd[k][1] # "STOP"

\* C17: the command readRegister executes is START, address+WRITE, register
\* byte, repeated START, address+READ, length - 1 bytes ACKed, a final byte
\* NACKed, STOP, with no STOP between the write and the read phase; while it
\* executes the task holds the mutex of the bus and no other task is in a
\* transaction on that bus; the method makes one call of the bus driver.
C17_RegisterReadAtomic ==
    /\ \A t \in Tasks :
        (focus = "i2c" /\ thread[t].op = "readRegister" /\ thread[t].pc = "exec") =>
            /\ \E addr \in I2cAddrs, reg \in I2cRegs :
                    RegisterReadShape(thread[t].cmd, addr, reg, thread[t].n)
            /\ mutex_[thread[t].inst] = t
            /\ \A u \in Tasks \ {t} : ~InTransaction(u, thread[t].inst)
    /\ (focus = "i2c" /\ last.op = "readRegister" /\ last.hw > 0) =>
            /\ last.hw = 1
            /\ \E addr \in I2cAddrs, reg \in I2cRegs, length \in 1..MaxLen :
                    RegisterReadShape(last.out, addr, reg, length)

\* readRegister of two bytes executes while the other task waits for the
\* mutex of the same bus
C17_Witness ==
    /\ focus = "i2c"
    /\ \E t, u \in Tasks :
        /\ thread[t].op = "readRegister" /\ thread[t].pc = "exec" /\ thread[t].n = 2
        /\ thread[u].pc = "acquire" /\ thread[u].inst = thread[t].inst

---------------------------------------------------------------------------
(* Properties of the I2C commands *)

\* C18: write(address, bytes) with non-empty bytes executes, as one
\* command, exactly START, the byte (address << 1) | WRITE, every payload
\* byte in order, STOP; for address 0x3C and payload [0x00, 0xAE] the frame
\* is START, 0x78, 0x00, 0xAE, STOP.
C18_WriteFrame ==
    [][\A addr \in I2cAddrs, n \in 1..MaxLen :
        (focus = "i2c" /\ I2cWrite(addr, n) /\ last'.hw > 0) =>
            /\ last'.hw = 1
            /\ Len(last'.out) = n + 3
            /\ last'.out[1] = <<"START", 0>>
            /\ last'.out[2] = <<"WRITE", (2 * addr) % 256>>
            /\ \A k \in 1..n : last'.out[k + 2] = <<"WRITE", Payload(n)[k]>>
            /\ last'.out[n + 3] = <<"STOP", 0>>
            /\ (addr = 60 /\ Payload(n) = <<0, 174>>) =>
                    last'.out = << <<"START", 0>>, <<"WRITE", 120>>, <<"WRITE", 0>>,
                                   <<"WRITE", 174>>, <<"STOP", 0>> >>]_vars

\* write(0x3C, [0x00, 0xAE]) was executed on a Running bus
C18_Witness ==
    /\ focus = "i2c"
    /\ last.op = "write" /\ last.id = 60 /\ last.hw = 1
    /\ last.out[3] = <<"WRITE", 0>> /\ last.out[4] = <<"WRITE", 174>>

\* C19: a task that has returned from a transaction holds no bus mutex,
\* whatever the transaction returned (success, timeout, NACK, command link
\* allocation failure), and a bus mutex that is held is always released
\* again, so that a later transaction on that bus can take it.
C19_MutexReleased ==
    /\ [](\A t \in Tasks : thread[t].pc = "idle" => \A b \in BusInst : mutex_[b] # t)
    /\ \A b \in BusInst : (mutex_[b] # 0) ~> (mutex_[b] = 0)

\* after a transaction timed out on a bus, another transaction holds the
\* mutex of that bus and executes
C19_Witness ==
    /\ last.ret = "ESP_ERR_TIMEOUT"
    /\ \E u \in Tasks :
        /\ thread[u].inst = last.inst /\ thread[u].pc = "exec"
        /\ mutex_[last.inst] = u

\* the list is made of exactly the members of set, in ascending order
AscendingListOf(list, set) ==
    /\ Len(list) = Cardinality(set)
    /\ \A a \in set : \E k \in 1..Len(list) : list[k] = a
    /\ \A j, k \in 1..Len(list) : j < k => list[j] < list[k]

\* C20: on a Running bus scanBus probes each address from 0x08 to 0x77 once,
\* in ascending order, with START, address+WRITE, STOP, and returns exactly
\* the addresses that acknowledge, in ascending order; a bus on which only
\* 0x23 and 0x68 acknowledge yields [0x23, 0x68].
C20_ScanBus ==
    [][\A acks \in AckSets, nomem \in NoMemSets :
        (focus = "i2c" /\ isRunning(state[1]) /\ I2cScanBus(acks, nomem)) =>
            /\ last'.ret = "ESP_OK"
            /\ last'.out[2] = [k \in 1..112 |->
                    << <<"START", 0>>, <<"WRITE", 2 * (k + 7)>>, <<"STOP", 0>> >>]
            /\ AscendingListOf(last'.out[1], acks)
            /\ acks = {35, 104} => last'.out[1] = <<35, 104>>]_vars

\* no command reached the bus or the device did not answer it
BusFailures == {"ESP_FAIL", "ESP_ERR_TIMEOUT", "ESP_ERR_NO_MEM"}

\* writeRegister of n bytes succeeded and the next call is readRegister of
\* the same register with length n, not failed by the bus: it succeeds and
\* hands back the bytes written
ByteRoundTrip(n) ==
    \A a \in I2cAddrs, reg \in I2cRegs :
        ( /\ focus = "i2c"
          /\ last.op = "writeRegister" /\ last.ret = "ESP_OK"
          /\ last.out = <<START, WriteByte(2 * a), WriteByte(reg)>>
                            \o [k \in 1..n |-> WriteByte(Payload(n)[k])] \o <<STOP>>
          /\ last'.op = "readRegister" /\ last'.ret \notin BusFailures
          /\ I2cReadRegister(a, reg, n) )
        => (last'.ret = "ESP_OK" /\ last'.out = Payload(n))

\* writeRegister16 puts the high byte first on the wire when big-endian and
\* the low byte first when little-endian
WireOrder16 ==
    \A a \in I2cAddrs, reg \in I2cRegs, v \in Words, e \in BOOLEAN :
        ( /\ focus = "i2c" /\ last'.op = "writeRegister16" /\ last'.hw = 1
          /\ I2cWriteRegister16(a, reg, v, e) )
        => last'.out = <<START, WriteByte(2 * a), WriteByte(reg),
                         WriteByte(IF e THEN v \div 256 ELSE v % 256),
                         WriteByte(IF e THEN v % 256 ELSE v \div 256), STOP>>

\* writeRegister16(v, e) succeeded and the next call is readRegister16(e),
\* which succeeds: it hands back v
WordRoundTrip ==
    \A a \in I2cAddrs, reg \in I2cRegs, v \in Words, e \in BOOLEAN :
        ( /\ focus = "i2c"
          /\ last.op = "writeRegister16" /\ last.ret = "ESP_OK"
          /\ last.out = <<START, WriteByte(2 * a), WriteByte(reg),
                          WriteByte(IF e THEN v \div 256 ELSE v % 256),
                          WriteByte(IF e THEN v % 256 ELSE v \div 256), STOP>>
          /\ last'.op = "readRegister16" /\ last'.ret = "ESP_OK"
          /\ I2cReadRegister16(a, reg, e) )
        => last'.out = <<v>>

\* C21 as stated: against a device that stores register writes,
\* writeRegister(addr, reg, bytes) followed by readRegister(addr, reg,
\* len(bytes)) returns the same bytes for every bytes, the empty sequence
\* included, and the 16-bit round trip returns the value written in both
\* byte orders, big-endian placing the high byte first on the wire.
C21_RoundTripAnyLength ==
    [][(\A n \in 0..MaxLen : ByteRoundTrip(n)) /\ WireOrder16 /\ WordRoundTrip]_vars

\* C21: against a device that stores register writes, writeRegister(addr,
\* reg, bytes) with at least one byte followed by readRegister(addr, reg,
\* len(bytes)) returns the same bytes (a read of length 0 is rejected with
\* ESP_ERR_INVALID_ARG), and writeRegister16(v, e) followed by
\* readRegister16(e) returns v for both byte orders e, big-endian placing
\* the high byte first on the wire and little-endian the low byte first.
C21_RoundTrip ==
    [][(\A n \in 1..MaxLen : ByteRoundTrip(n)) /\ WireOrder16 /\ WordRoundTrip]_vars

\* 0xAE00 written little-endian (0x00 then 0xAE on the wire) was read back
C21_Witness ==
    /\ focus = "i2c"
    /\ last.op = "readRegister16" /\ last.ret = "ESP_OK" /\ last.out = <<44544>>
    /\ dev_regs[0] = 0 /\ dev_regs[1] = 174

\* two bytes written with writeRegister were read back
C21_WitnessBytes ==
    /\ focus = "i2c"
    /\ last.op = "readRegister" /\ last.ret = "ESP_OK" /\ last.out = <<0, 174>>

\* C22: against a device that stores register writes, SpiHal::writeRegister8(a,
\* v) followed by readRegister8(a) returns v for every address a and value
\* v: the write sends a with its high bit cleared followed by v in one
\* transaction, the read sends a with its high bit set followed by one dummy
\* byte, and the first received byte is discarded, so that exactly the
\* requested byte is returned. (A call the bus fails with ESP_FAIL is not
\* counted.)
C22_SpiRegisterRoundTrip ==
    [][\A h \in Handles, a \in SpiRegs, v \in SpiValues, f \in TransFlags :
        /\ ( /\ focus = "spi" /\ isRunning(state[1]) /\ h \in bus_devices
             /\ SpiWriteRegister8(h, f, a, v)
             /\ last'.ret # "ESP_FAIL" )
           => (last'.ret = "ESP_OK" /\ last'.out[1] = <<a % 128, v>>)
        /\ ( /\ focus = "spi"
             /\ last.op = "writeRegister8" /\ last.ret = "ESP_OK" /\ last.id = h
             /\ last.out[1] = <<a % 128, v>>
             /\ SpiReadRegister8(h, f, a)
             /\ last'.ret # "ESP_FAIL" )
           => ( /\ last'.ret = "ESP_OK"
                /\ last'.out[1] = <<128 + (a % 128), 0>>
                /\ last'.out[2] = <<v>> )]_vars

\* readRegister(h, address, length), built on flags f, can return ESP_OK
ReadRegisterOk(h, f, a, n) == SpiReadRegister(h, f, a, n) /\ last'.ret = "ESP_OK"

\* C23: for the same device response SpiHal::transmit gives the caller the
\* same result and the same received bytes on the inline path (at most 4
\* bytes) and on the buffer path (more than 4 bytes): a readRegister of
\* length <= 3 can succeed exactly when one of length >= 4 can, and a
\* readRegister that succeeded has returned the `length` bytes the device
\* holds at the register.
C23_PathsEquivalent ==
    focus = "spi" =>
        /\ \A h \in Handles, a \in SpiRegs, f \in TransFlags :
           \A short \in {n \in SpiLens : n <= 3}, long \in {n \in SpiLens : n >= 4} :
               ENABLED ReadRegisterOk(h, f, a, short) <=> ENABLED ReadRegisterOk(h, f, a, long)
        /\ (last.op = "readRegister" /\ last.ret = "ESP_OK") =>
               last.out[2] = [k \in 1..(Len(last.out[1]) - 1) |-> SpiCell(dev_regs, k - 1)]

\* C24: for every registered timer id and interrupt id, each firing of its
\* callback trampoline increments that id's total_count by exactly one, so
\* that after k firings getStatistics(id) reports total_count = k.
C24_CountEveryFiring ==
    [][\A id \in IntrIds :
        /\ espTimerCallback(id) => timers'[id].total_count = timers[id].total_count + 1
        /\ interruptHandlerWrapper(id) =>
               interrupts'[id].total_count = interrupts[id].total_count + 1]_vars

\* C25: for every valid channel id, a read performed after configureChannel
\* with calibration disabled, whatever was done on the channel before,
\* returns calibrated = false and voltage_mv = raw * default_vref / 4095
\* (integer division) exactly.
C25_LinearEstimate ==
    [][\A c \in AdcChans :
        ( /\ focus = "adc"
          /\ last.op = "configureChannel" /\ last.ret = "ESP_OK" /\ last.id = c
          /\ ~channels[c].calibration_enable
          /\ AdcRead(c)
          /\ last'.ret = "ESP_OK" )
        => ( /\ last'.out[3] = FALSE
             /\ last'.out[2] = (last'.out[1] * default_vref) \div 4095 )]_vars

\* C26: whenever setAttenuation changes a channel's attenuation or
\* setBitWidth changes the unit's bit width, the calibration context of each
\* affected channel is destroyed and recreated: a context the channel has
\* after the change was created for the attenuation and the bit width now
\* stored, so no read converts through a context created for other ones.
C26_ContextRecreated ==
    [][\A c \in AdcChans :
        ( /\ focus = "adc"
          /\ \/ /\ \E a \in Attenuations : AdcSetAttenuation(c, a)
                /\ channels'[c].attenuation # channels[c].attenuation
             \/ /\ \E w \in BitWidths : AdcSetBitWidth(w)
                /\ bit_width' # bit_width
          /\ calibration_handles'[c].present )
        => ( /\ calibration_handles'[c].atten = channels'[c].attenuation
             /\ calibration_handles'[c].width = bit_width' )]_vars

\* C27: configureChannel with a channel id outside ADC_CHANNEL_0 ..
\* ADC_CHANNEL_9, called on an initialized unit, fails with
\* ESP_ERR_INVALID_ARG and stores no channel configuration and no
\* calibration context for that id.
C27_InvalidChannelRejected ==
    [][\A c \in InvalidChans, cfg \in ChannelConfigs :
        (focus = "adc" /\ isInitialized(state[1]) /\ adc_handle /\ AdcConfigureChannel(c, cfg))
        => ( /\ last'.ret = "ESP_ERR_INVALID_ARG"
             /\ channels'[c] = NoChannel
             /\ ~calibration_handles'[c].present )]_vars

\* C28: if creating the calibration context fails during configureChannel
\* with calibration requested, configureChannel still returns success, the
\* channel is registered and has no calibration context, and reads of a
\* channel in that condition return the linear estimate raw * default_vref
\* / 4095 with calibrated = false.
C28_CalibrationFailureNonFatal ==
    [][\A c \in AdcChans :
        /\ \A cfg \in ChannelConfigs :
             ( /\ focus = "adc" /\ isInitialized(state[1]) /\ cfg.calibration_enable
               /\ last'.op = "configureChannel"
               /\ ConfigureChannelWith(c, cfg, "ESP_OK", FALSE) )
             => ( /\ last'.op = "configureChannel" /\ last'.ret = "ESP_OK"
                  /\ channels'[c] = cfg
                  /\ ~calibration_handles'[c].present )
        /\ ( /\ focus = "adc"
             /\ channels[c].set /\ channels[c].calibration_enable
             /\ ~calibration_handles[c].present
             /\ last'.op = "read" /\ last'.ret = "ESP_OK"
             /\ AdcRead(c) )
           => ( /\ last'.out[3] = FALSE
                /\ last'.out[2] = (last'.out[1] * default_vref) \div 4095 )]_vars

\* a channel that had a calibration context was configured again with
\* calibration requested, the creation failed, and 2048 was read as 550 mV
C28_Witness ==
    /\ focus = "adc"
    /\ channels[0].set /\ channels[0].calibration_enable
    /\ ~calibration_handles[0].present
    /\ last.op = "read" /\ last.ret = "ESP_OK" /\ last.out = <<2048, 550, FALSE>>

\* C29: after the seeding readFiltered call on a channel, a readFiltered on
\* that channel with alpha = 0.0 returns raw_value equal to the filter value
\* it found and leaves that value as it is, whatever the new raw sample is;
\* the seeding call stores the sample it returns. So every readFiltered
\* with alpha = 0.0 that follows the seeding call returns the seed.
C29_AlphaZeroKeepsSeed ==
    [][\A c \in AdcChans :
        ( /\ focus = "adc"
          /\ last'.op = "readFiltered" /\ last'.ret = "ESP_OK" /\ last'.id = c )
        => /\ filter_values[c] = -1 => filter_values'[c] = last'.out[1]
           /\ (filter_values[c] # -1 /\ AdcReadFiltered(c, 0))
              => ( /\ last'.out[1] = filter_values[c]
                   /\ filter_values'[c] = filter_values[c] )]_vars

\* a readFiltered with alpha = 0.0 that was not the seeding call (its voltage
\* went through the second conversion) has returned the filter value 4095
C29_Witness ==
    /\ focus = "adc"
    /\ last.op = "readFiltered" /\ last.ret = "ESP_OK"
    /\ last.out = <<4095, 7, FALSE, 0>> /\ filter_values[0] = 4095

\* C30: an operation rejected with InvalidState does not mutate driver
\* state: setBitWidth and setAttenuation called while the ADC is neither
\* Initialized nor Running return ESP_ERR_INVALID_STATE and leave the stored
\* bit width and the stored channel attenuation unchanged.
C30_RejectedKeepsSettings ==
    [][( /\ focus = "adc" /\ ~isInitialized(state[1])
         /\ last'.op \in {"setBitWidth", "setAttenuation"}
         /\ \/ \E w \in BitWidths : AdcSetBitWidth(w)
            \/ \E c \in AdcChans, a \in Attenuations : channels[c].set /\ AdcSetAttenuation(c, a) )
       => ( /\ last'.ret = "ESP_ERR_INVALID_STATE"
            /\ bit_width' = bit_width
            /\ channels' = channels )]_vars

\* C31: an operation that is not valid for the timer's variant fails with
\* ESP_ERR_NOT_SUPPORTED and changes nothing: setAlarmValue on a
\* HIGH_RESOLUTION timer, setPeriod and startOneShot on a GENERAL_PURPOSE
\* timer.
C31_UnsupportedForVariant ==
    [][( /\ focus = "timer"
         /\ \/ timer_type = "HIGH_RESOLUTION" /\ last'.op = "setAlarmValue" /\ setAlarmValue
            \/ timer_type = "GENERAL_PURPOSE" /\ last'.op = "setPeriod" /\ setPeriod
            \/ timer_type = "GENERAL_PURPOSE" /\ last'.op = "startOneShot" /\ startOneShot )
       => ( /\ last'.ret = "ESP_ERR_NOT_SUPPORTED"
            /\ UNCHANGED <<state, timerVars>> )]_vars

\* C32: the level passed to a GPIO interrupt callback is the pin's hardware
\* level read at dispatch time, negated exactly when the stored
\* configuration of the pin (in the instance the pin is bound to) has invert
\* set.
C32_IsrLevelInverted ==
    [][\A pin \in Pins, level \in BOOLEAN :
        ( /\ focus = "gpio" /\ last'.op = "isr" /\ last'.id = pin
          /\ GpioIsr(pin, level)
          /\ last'.out[1] # 0 )
        => LET cfg == pin_configs[pin_map[pin]][pin]
           IN  last'.out[2] = (level # (cfg.set /\ cfg.invert))]_vars

\* a callback was invoked for a pin whose stored configuration has invert
\* set, with level TRUE (the pin read low)
C32_Witness ==
    /\ focus = "gpio"
    /\ last.op = "isr" /\ last.out[1] # 0 /\ last.out[2] = TRUE
    /\ last.inst # 0
    /\ pin_configs[last.inst][last.id].set /\ pin_configs[last.inst][last.id].invert

\* C33: no I2C or SPI bus transaction starts executing after a stop() or
\* reset() of the same instance has returned: whenever a task enters the
\* bus driver with the exchange of a transaction, the state of the instance
\* is Running.
C33_BusActivityOnlyRunning ==
    [][\A t \in Tasks :
        ( /\ focus \in {"i2c", "spi"}
          /\ thread[t].pc = "frame" /\ thread[t].op \in Transactions
          /\ thread'[t].pc = "exec"
          /\ TxFrame(t, TRUE) )
        => isRunning(state[thread[t].inst])]_vars

\* C34: whenever an I2cHal is Running its driver is installed, and whenever a
\* SpiHal is Running its bus is initialized, after any sequence of
\* initialize, configure, start, stop and reset calls, failing ones included.
C34_RunningHasDriver ==
    /\ (focus = "i2c" /\ isRunning(state[1])) => driver_installed
    /\ (focus = "spi" /\ isRunning(state[1])) => bus_initialized

\* the instance is Running after a configure() that deleted and re-installed
\* its driver
C34_Witness ==
    /\ focus \in {"i2c", "spi"}
    /\ isRunning(state[1])
    /\ last.op = "configure" /\ last.ret = "ESP_OK"
    /\ IF focus = "i2c" THEN driver_installed ELSE bus_initialized

\* C35: stop, reset and destruction of one GpioHal instance never remove or
\* alter the registry binding, the callback or the installed ISR handler of
\* a pin that is bound to a different instance.
C35_OtherInstanceUntouched ==
    [][\A i \in GpioInst, p \in Pins :
        ( /\ focus = "gpio"
          /\ last'.op \in {"stop", "reset", "destroy"} /\ last'.inst = i
          /\ pin_map[p] \notin {0, i}
          /\ (GpioStop(i) \/ GpioReset(i) \/ GpioDestroy(i)) )
        => ( /\ pin_map'[p] = pin_map[p]
             /\ callbacks'[pin_map[p]][p] = callbacks[pin_map[p]][p]
             /\ isr_handler'[p] = isr_handler[p] )]_vars

\* C36: a setInterrupt that fails (invalid pin, interrupt-type failure or
\* handler-add failure) leaves the registry and the instance as before the
\* call: no pin-map entry and no callback of the pin is added or replaced.
C36_FailedSetInterruptKeeps ==
    [][\A i \in GpioInst, pin \in PinArgs, cb \in Callbacks :
        ( /\ focus = "gpio"
          /\ last'.op = "setInterrupt" /\ last'.inst = i /\ last'.id = pin
          /\ last'.ret # "ESP_OK"
          /\ GpioSetInterrupt(i, pin, "POSEDGE", cb) )
        => ( /\ pin_map' = pin_map
             /\ callbacks' = callbacks )]_vars

\* C37: a device handle addDevice returned stays tracked in the device list
\* and attached to the bus until removeDevice(handle) succeeds or reset() is
\* called: configure() preserves it, and a removeDevice that fails leaves it
\* tracked.
C37_DeviceStaysTracked ==
    [][\A h \in Handles :
        ( /\ focus = "spi"
          /\ h \in Range(devices) /\ h \in bus_devices
          /\ last'.op # "reset"
          /\ ~(last'.op = "removeDevice" /\ last'.id = h /\ last'.ret = "ESP_OK") )
        => (h \in Range(devices') /\ h \in bus_devices')]_vars

\* C38: while an InterruptHal or a TimerHal is Suspended none of its timers
\* is active: after stop(), startTimer, setTimerPeriod and startOneShot
\* cannot start a timer until the driver is Running again.
C38_SuspendedNoActiveTimer ==
    /\ (focus = "interrupt" /\ state[1] = "SUSPENDED") =>
            \A id \in IntrIds : ~timers[id].running
    /\ (focus = "timer" /\ state[1] = "SUSPENDED") => ~timer_running

\* C39: scanBus returns success only when every address of 0x08..0x77 was
\* probed on the bus: when the driver leaves Running (stop() or reset() by
\* another task) during the scan, scanBus does not return ESP_OK with a
\* device list that silently misses the addresses not probed.
C39_ScanNotTruncated ==
    (focus = "i2c" /\ last.op = "scanBus" /\ last.ret = "ESP_OK" /\ last.out = <<TRUE>>)
        => last.hw = SCAN_LAST - SCAN_FIRST + 1

\* C40: when setPriority fails to re-allocate the interrupt, the registration
\* of the interrupt id is left as before the call: still allocated, with its
\* previous priority.
C40_FailedSetPriorityKeeps ==
    [][\A id \in IntrIds, priority \in Priorities :
        ( /\ focus = "interrupt"
          /\ last'.op = "setPriority" /\ last'.id = id /\ last'.ret # "ESP_OK"
          /\ interrupts[id].set
          /\ setPriority(id, priority) )
        => interrupts'[id] = interrupts[id]]_vars

===========================================================================
